---- MODULE Spec2Model ----
(***************************************************************************)
(* State-machine model of the memo staging / proposal / commit workflow    *)
(* (src/memo).  The file system under the project root is modelled as      *)
(* partial maps from relative path strings to file contents; the two       *)
(* JSONL ledgers are sequences of records behind an "exists" flag; the git *)
(* repository is its history plus the staged path set.  Every operation    *)
(* runs to completion (the program is single-process and synchronous), so  *)
(* each handler is one action.  I/O failures are inputs of the commit      *)
(* action: a fault names the I/O call that raises.                         *)
(***************************************************************************)
EXTENDS Integers, Sequences, FiniteSets, TLC

VARIABLES now, gitRepo, inbox, processed, vault, entriesIndex, commitsIndex,
          proposals, gitLog, gitStaged, last,
          tmpFile, writer, seen, procs, results, overlapped

\* now          the wall clock, in seconds                (utils.py now_utc_iso)
\* gitRepo      <root>/.git exists                        (commit_flow.py:24-27)
\* inbox        stage/inbox: path -> raw text             (stage.py:17-18)
\* processed    stage/processed: path -> raw text         (stage.py:21-22)
\* vault        entry and summary files: path -> text     (storage.py:21-27)
\* entriesIndex vault/index/entries.jsonl                 (commit_flow.py:43)
\* commitsIndex vault/index/commits.jsonl                 (commit_flow.py:44)
\* proposals    .memo/proposals: proposal id -> proposal  (proposal.py:17-18)
\* gitLog       the commits of the repository, oldest first
\* gitStaged    the paths staged in the git index
\* last         the last call: commit_proposal's argument, outcome, counts and
\*              the files as they were when it was called
\* tmpFile      the temporary file of atomic_write_text   (utils.py:32)
\* writer       the position of a process that writes the entries ledger one
\*              file-system call at a time (WriteSpec)
\* seen         what a concurrent reader last read at the ledger's path
\* procs        the position and the local variables of each of two processes
\*              that run commit_proposal on the same root (ConcurrentSpec)
\* results      the CommitResults those processes have returned; in StageSpec
\*              what the stage add made last was given and returned
\* overlapped   one of them started while the other was inside the call
vars == <<now, gitRepo, inbox, processed, vault, entriesIndex, commitsIndex,
          proposals, gitLog, gitStaged, last, tmpFile, writer, seen,
          procs, results, overlapped>>

\* The variables only the file-level and the two-process specifications step.
aux == <<tmpFile, writer, seen, procs, results, overlapped>>

(***************************************************************************)
(* Bounds of the model.                                                    *)
(***************************************************************************)
MaxTime == 1
MaxStaged == 2
MaxProposals == 2
MaxGitLog == 2

(***************************************************************************)
(* Inputs: raw note texts, external file names, proposal-id suffixes.      *)
(***************************************************************************)
RawTexts == {"todo", "long", "blank"}
SourceNames == {"a"}
\* The inputs of a build taken on its own: "fmonly" is a file holding only a
\* frontmatter block (metadata, then blank lines); "echo" is a short note into
\* which the text of the long note's summary file was pasted; "b" is a second
\* source name.
BuildRaws == RawTexts \cup {"fmonly", "echo"}
BuildNames == SourceNames \cup {"b"}
Suffixes == {"aa"}

EmptyFiles == [p \in {} |-> ""]
WriteFile(fs, path, content) == (path :> content) @@ fs
RemoveFile(fs, path) == [p \in (DOMAIN fs) \ {path} |-> fs[p]]

(***************************************************************************)
(* utils.py                                                                *)
(***************************************************************************)
sha256_text(text) == "sha(" \o text \o ")"

NoFile == [exists |-> FALSE, rows |-> <<>>]

read_jsonl(file) == IF file.exists THEN file.rows ELSE <<>>

append_jsonl_atomic(file, rows) ==
    [exists |-> TRUE, rows |-> (IF file.exists THEN file.rows ELSE <<>>) \o rows]

(***************************************************************************)
(* stage.py: the inbox and the processed area                              *)
(***************************************************************************)
\* The path of no file (None).
NoPath == ""
stage_inbox == "stage/inbox"
stage_processed == "stage/processed"

Timestamp(t) == "T" \o ToString(t) \o "Z"

\* The name stage_add gives a file: "<timestamp>_<name>", or
\* "<timestamp>_<counter>_<name>" once the loop has counted (counter >= 1).
StagedName(t, counter, base) ==
    IF counter = 0 THEN Timestamp(t) \o "_" \o base
    ELSE Timestamp(t) \o "_" \o ToString(counter) \o "_" \o base

\* Mutant: the timestamped name is taken whether or not it exists.
TimestampedName(files, t, counter, base) == stage_inbox \o "/" \o StagedName(t, 0, base)

RECURSIVE StageDestination(_, _, _, _)
StageDestination(files, t, counter, base) ==
    LET destination == stage_inbox \o "/" \o StagedName(t, counter, base)
    IN  IF destination \in DOMAIN files
        THEN StageDestination(files, t, counter + 1, base)
        ELSE destination

\* Every name the inbox can hold within the bounds, with its parts.
StagedKeys == (0..MaxTime) \X (0..MaxStaged) \X BuildNames
KeyOf(path) ==
    CHOOSE k \in StagedKeys : stage_inbox \o "/" \o StagedName(k[1], k[2], k[3]) = path
\* A file the user put into a subdirectory of the inbox (the listing globs
\* "**/*"); src_path.name is the last component in either place.
SubdirPath(name) == stage_inbox \o "/sub/" \o name
PathName(path) ==
    LET k == CHOOSE k \in StagedKeys :
                path \in {stage_inbox \o "/" \o StagedName(k[1], k[2], k[3]),
                          SubdirPath(StagedName(k[1], k[2], k[3]))}
    IN  StagedName(k[1], k[2], k[3])

\* sorted(): the order of the path strings.  After the timestamp a digit (a
\* counter) sorts before a letter (a name).
NameRank(base) == IF base = "a" THEN 1 ELSE 2
PathLess(p, q) ==
    LET a == KeyOf(p)
        b == KeyOf(q)
    IN  \/ a[1] < b[1]
        \/ /\ a[1] = b[1]
           /\ \/ a[2] > 0 /\ b[2] = 0
              \/ a[2] > 0 /\ b[2] > 0 /\ a[2] < b[2]
              \/ a[2] = b[2] /\ NameRank(a[3]) < NameRank(b[3])

RECURSIVE SortedPaths(_)
SortedPaths(S) ==
    IF S = {} THEN <<>>
    ELSE LET first == CHOOSE p \in S : \A q \in S \ {p} : PathLess(p, q)
         IN  <<first>> \o SortedPaths(S \ {first})

list_pending_stage_files(files) == SortedPaths(DOMAIN files)

\* _parse_frontmatter + strip: the body of each raw text of the model.
\* "blank" is a whitespace-only file and "fmonly" a frontmatter block followed
\* by blank lines: the body of both is empty after stripping.
BodyOf(raw) == IF raw \in {"blank", "fmonly"} THEN "" ELSE "body(" \o raw \o ")"
\* _word_count of a body of the model.
WordCount(body) == IF body = BodyOf("long") THEN 200 ELSE IF body = "" THEN 0 ELSE 8

resolve_entry_id(content_hash) == "uuid5(" \o content_hash \o ")"

\* Mutant: the hash covers the path as well as the content.
LoadHashingPath(files, path) ==
    [source_rel_path |-> path,
     content_hash    |-> sha256_text(path \o ":" \o files[path]),
     body            |-> BodyOf(files[path]),
     warnings        |-> IF BodyOf(files[path]) = "" THEN <<"body is empty">> ELSE <<>>,
     content         |-> files[path]]

\* stage.py:78-98.
load_stage_item(files, path) ==
    [source_rel_path |-> path,
     content_hash    |-> sha256_text(files[path]),
     body            |-> BodyOf(files[path]),
     warnings        |-> IF BodyOf(files[path]) = "" THEN <<"body is empty">> ELSE <<>>,
     content         |-> files[path]]

\* Mutant: the tagged name is taken whether or not it exists.
TaggedName(files, proposal_id, counter, name) ==
    stage_processed \o "/" \o proposal_id \o "_" \o name

\* Mutant: the destination name lacks the proposal id.
RECURSIVE UntaggedDestination(_, _, _, _)
UntaggedDestination(files, proposal_id, counter, name) ==
    LET destination ==
            IF counter = 0
            THEN stage_processed \o "/" \o name
            ELSE stage_processed \o "/" \o ToString(counter) \o "_" \o name
    IN  IF destination \in DOMAIN files
        THEN UntaggedDestination(files, proposal_id, counter + 1, name)
        ELSE destination

\* move_stage_to_processed: the destination name, disambiguated by a counter.
RECURSIVE ProcessedDestination(_, _, _, _)
ProcessedDestination(files, proposal_id, counter, name) ==
    LET destination ==
            IF counter = 0
            THEN stage_processed \o "/" \o proposal_id \o "_" \o name
            ELSE stage_processed \o "/" \o proposal_id \o "_" \o ToString(counter) \o "_" \o name
    IN  IF destination \in DOMAIN files
        THEN ProcessedDestination(files, proposal_id, counter + 1, name)
        ELSE destination

\* stage.py:109-125.  found is FALSE for the FileNotFoundError.
move_stage_to_processed(inboxFiles, processedFiles, source_rel_path, proposal_id) ==
    IF source_rel_path \notin DOMAIN inboxFiles
    THEN [found |-> FALSE, inbox |-> inboxFiles, processed |-> processedFiles,
          destination |-> NoPath]
    ELSE LET destination ==
                 ProcessedDestination(processedFiles, proposal_id, 0,
                                      PathName(source_rel_path))
         IN  [found |-> TRUE,
              inbox |-> RemoveFile(inboxFiles, source_rel_path),
              processed |-> WriteFile(processedFiles, destination,
                                      inboxFiles[source_rel_path]),
              destination |-> destination]

(***************************************************************************)
(* config.py: the configuration a run loads (an input of each build)       *)
(***************************************************************************)
DEFAULT_CONFIG ==
    [core_categories |-> {"idea", "todo", "reference", "log"},
     enabled |-> TRUE, min_words |-> 180, batch_trigger_count |-> 5,
     redundancy_similarity_threshold |-> 850,
     commit_prefix |-> "memo:"]

\* load_config: the configurations a run may load.
Configs == {DEFAULT_CONFIG}

\* Configurations a user may write in the config file: a batch trigger that two
\* pending files reach, and a taxonomy without the "todo" category.
BatchConfig == [DEFAULT_CONFIG EXCEPT !.batch_trigger_count = 2]
NoTodoConfig == [DEFAULT_CONFIG EXCEPT !.core_categories = {"idea", "reference", "log"}]
DisabledConfig == [BatchConfig EXCEPT !.enabled = FALSE]
\* load_config takes any list of categories, also one without "reference".
NoReferenceConfig == [DEFAULT_CONFIG EXCEPT !.core_categories = {"idea", "todo"}]
BuildConfigs == {DEFAULT_CONFIG, BatchConfig, NoTodoConfig, DisabledConfig, NoReferenceConfig}

(***************************************************************************)
(* classify.py: scores of each raw text of the model and classify_item.    *)
(* Confidence is in thousandths.                                           *)
(***************************************************************************)
Categories == <<"idea", "todo", "reference", "log">>

\* _compute_scores: "todo" is a check-box note ("- [ ] ... need to ..."),
\* "long" a long reference note with a URL, "blank" has no lexical signal.
ComputeScores(raw) ==
    IF raw = "todo" THEN [idea |-> 0, todo |-> 4, reference |-> 0, log |-> 0]
    ELSE IF raw = "long" THEN [idea |-> 1, todo |-> 0, reference |-> 4, log |-> 1]
    ELSE [idea |-> 0, todo |-> 0, reference |-> 0, log |-> 0]

\* Counter.most_common(): by score, ties in insertion order.
MostCommon(scores, excluded) ==
    CHOOSE i \in (1..Len(Categories)) \ excluded :
        \A j \in (1..Len(Categories)) \ excluded :
            \/ scores[Categories[i]] > scores[Categories[j]]
            \/ scores[Categories[i]] = scores[Categories[j]] /\ i <= j

Min(a, b) == IF a <= b THEN a ELSE b
Max(a, b) == IF a >= b THEN a ELSE b

classify_item(raw, taxonomy) ==
    LET scores == ComputeScores(raw)
        top == MostCommon(scores, {})
        top_score == scores[Categories[top]]
        second_score == scores[Categories[MostCommon(scores, {top})]]
        total == scores.idea + scores.todo + scores.reference + scores.log
        ratio == (top_score * 1000) \div Max(total, 1)
        first ==
            IF top_score = 0 THEN [category |-> "reference", confidence |-> 250]
            ELSE [category |-> Categories[top],
                  confidence |-> IF top_score - second_score <= 1
                                 THEN Min(ratio, 450) ELSE ratio]
    IN  IF first.category \notin taxonomy.core_categories
        THEN [category |-> "reference", confidence |-> Min(first.confidence, 350)]
        ELSE first

(***************************************************************************)
(* storage.py: target paths and rendering                                  *)
(***************************************************************************)
EntriesIndexPath == "vault/index/entries.jsonl"

category_folder(category) ==
    IF category = "idea" THEN "ideas"
    ELSE IF category = "todo" THEN "todos"
    ELSE IF category = "log" THEN "logs"
    ELSE "references"

target_entry_relative_path(entry_id, category) ==
    "vault/" \o category_folder(category) \o "/" \o entry_id \o ".md"

target_summary_relative_path(entry_id) == "vault/summaries/" \o entry_id \o ".md"

SummariesDir == {target_summary_relative_path(resolve_entry_id(sha256_text(raw))) : raw \in BuildRaws}

render_entry_markdown(item, proposal_id) ==
    "entry_id: " \o item.entry_id \o "; category: " \o item.classification.category
    \o "; content_hash: " \o item.content_hash
    \o "; source_stage_path: " \o item.source_stage_path
    \o "; proposal_id: " \o proposal_id
    \o "; summary_path: " \o item.target_summary_path
    \o "; " \o item.body

RECURSIVE JoinSignals(_)
JoinSignals(signals) ==
    IF signals = <<>> THEN "" ELSE "- " \o Head(signals) \o " " \o JoinSignals(Tail(signals))

render_summary_markdown(item) ==
    "# Summary for " \o item.entry_id \o "; " \o item.summary[1].short_summary
    \o "; Triggered By " \o JoinSignals(item.summary[1].triggered_by)

(***************************************************************************)
(* summarize.py                                                            *)
(***************************************************************************)
load_existing_summary_texts(files) ==
    {files[p] : p \in (DOMAIN files) \cap SummariesDir}

build_summary(item, triggered_by) ==
    [short_summary |-> "short(" \o item.body \o ")", triggered_by |-> triggered_by]

\* The summary file a commit writes for the long note.
EchoedSummary ==
    render_summary_markdown(
        [entry_id |-> resolve_entry_id(sha256_text("long")),
         summary |-> <<build_summary([body |-> BodyOf("long")], <<"long_entry">>)>>])

\* SequenceMatcher ratio in thousandths of the normalised texts: equal texts
\* match fully, and so does the body of "echo" with the summary file it
\* repeats; no other note body comes close to a rendered summary file.
SimilarityRatio(a, b) ==
    IF a = b \/ (a = BodyOf("echo") /\ b = EchoedSummary) THEN 1000 ELSE 0

MaxSimilarity(text, existing_texts) ==
    IF existing_texts = {} THEN 0
    ELSE CHOOSE best \in {SimilarityRatio(text, t) : t \in existing_texts} :
            \A t \in existing_texts : best >= SimilarityRatio(text, t)

\* Mutant: the batch trigger is left out.
SignalsWithoutBatch(item, pending_count, config, existing_summary_texts) ==
    IF ~config.enabled THEN <<>>
    ELSE (IF WordCount(item.body) >= config.min_words THEN <<"long_entry">> ELSE <<>>)
         \o (IF MaxSimilarity(item.body, existing_summary_texts)
                    >= config.redundancy_similarity_threshold
             THEN <<"high_redundancy">> ELSE <<>>)

summarization_signals(item, pending_count, config, existing_summary_texts) ==
    IF ~config.enabled THEN <<>>
    ELSE (IF WordCount(item.body) >= config.min_words THEN <<"long_entry">> ELSE <<>>)
         \o (IF pending_count >= config.batch_trigger_count THEN <<"batch_threshold">> ELSE <<>>)
         \o (IF MaxSimilarity(item.body, existing_summary_texts)
                    >= config.redundancy_similarity_threshold
             THEN <<"high_redundancy">> ELSE <<>>)

(***************************************************************************)
(* proposal.py                                                             *)
(***************************************************************************)
NewProposalId(t, suffix) == Timestamp(t) \o "_" \o suffix

\* Mutant: the emptiness test looks at the raw content, not at the body.
BuildItemByRawContent(stage_item, pending_count, config, existing_summary_texts) ==
    LET entry_id == resolve_entry_id(stage_item.content_hash)
        classification == classify_item(stage_item.content, config)
        status == IF stage_item.content = "blank" THEN "invalid" ELSE "ready"
        signals == summarization_signals(stage_item, pending_count, config,
                                         existing_summary_texts)
        summarized == status = "ready" /\ signals # <<>>
    IN  [entry_id |-> entry_id,
         source_stage_path |-> stage_item.source_rel_path,
         content_hash |-> stage_item.content_hash,
         body |-> stage_item.body,
         warnings |-> stage_item.warnings,
         classification |-> classification,
         summary |-> IF summarized THEN <<build_summary(stage_item, signals)>> ELSE <<>>,
         target_entry_path |-> target_entry_relative_path(entry_id, classification.category),
         target_summary_path |->
             IF summarized THEN target_summary_relative_path(entry_id) ELSE NoPath,
         status |-> status,
         invalid_reason |-> IF status = "invalid" THEN "empty body" ELSE ""]

\* proposal.py:36-83: one item of the proposal.
BuildItem(stage_item, pending_count, config, existing_summary_texts) ==
    LET entry_id == resolve_entry_id(stage_item.content_hash)
        classification == classify_item(stage_item.content, config)
        status == IF stage_item.body = "" THEN "invalid" ELSE "ready"
        signals == summarization_signals(stage_item, pending_count, config,
                                         existing_summary_texts)
        summarized == status = "ready" /\ signals # <<>>
    IN  [entry_id |-> entry_id,
         source_stage_path |-> stage_item.source_rel_path,
         content_hash |-> stage_item.content_hash,
         body |-> stage_item.body,
         warnings |-> stage_item.warnings,
         classification |-> classification,
         summary |-> IF summarized THEN <<build_summary(stage_item, signals)>> ELSE <<>>,
         target_entry_path |-> target_entry_relative_path(entry_id, classification.category),
         target_summary_path |->
             IF summarized THEN target_summary_relative_path(entry_id) ELSE NoPath,
         status |-> status,
         invalid_reason |-> IF status = "invalid" THEN "empty body" ELSE ""]

\* Mutant: every item is counted as ready.
CountAll(items) == Len(items)

CountReady(items) == Cardinality({i \in 1..Len(items) : items[i].status = "ready"})
CountInvalid(items) == Cardinality({i \in 1..Len(items) : items[i].status = "invalid"})
CountWithSummary(items) == Cardinality({i \in 1..Len(items) : items[i].summary # <<>>})

build_proposal(files, vaultFiles, config, proposal_id, t) ==
    LET paths == list_pending_stage_files(files)
        existing == load_existing_summary_texts(vaultFiles)
        items == [i \in 1..Len(paths) |->
                    BuildItem(load_stage_item(files, paths[i]), Len(paths), config, existing)]
    IN  [proposal_id |-> proposal_id,
         created_at |-> t,
         items |-> items,
         stats |-> [total_items |-> Len(items),
                    ready_items |-> CountReady(items),
                    invalid_items |-> CountInvalid(items),
                    summary_items |-> CountWithSummary(items)],
         config_snapshot |-> config]

save_proposal(store, proposal) == WriteFile(store, proposal.proposal_id, proposal)

\* The hexadecimal suffixes uuid4 may hand to a build, and the ids they give.
StoreSuffixes == {"aa", "bb"}
StoreIds == {NewProposalId(t, suffix) : t \in 0..MaxTime, suffix \in StoreSuffixes}
IdKey(proposal_id) ==
    CHOOSE k \in (0..MaxTime) \X StoreSuffixes : NewProposalId(k[1], k[2]) = proposal_id

\* sorted() of the proposal file names: by timestamp, then by suffix.
SuffixRank(suffix) == IF suffix = "aa" THEN 1 ELSE 2
IdLessEq(p, q) ==
    \/ IdKey(p)[1] < IdKey(q)[1]
    \/ IdKey(p)[1] = IdKey(q)[1] /\ SuffixRank(IdKey(p)[2]) <= SuffixRank(IdKey(q)[2])

\* proposal.py:166-173: the stem of the last file name, "" for None.
latest_proposal_id(store) ==
    IF DOMAIN store = {} THEN ""
    ELSE CHOOSE id \in DOMAIN store : \A other \in DOMAIN store : IdLessEq(other, id)

\* proposal.py:176-180.
load_latest_proposal(store) ==
    IF latest_proposal_id(store) = ""
    THEN [found |-> FALSE, proposal_id |-> ""]
    ELSE [found |-> TRUE, proposal_id |-> latest_proposal_id(store)]

\* What load_proposal hands back for an id: found says whether the JSON file
\* exists (FileNotFoundError is raised when it does not).
EmptyProposal(proposal_id, config) ==
    [proposal_id |-> proposal_id, created_at |-> 0, items |-> <<>>,
     stats |-> [total_items |-> 0, ready_items |-> 0, invalid_items |-> 0,
                summary_items |-> 0],
     config_snapshot |-> config]

\* Mutant: a missing file loads as an empty proposal instead of raising.
LoadOrEmpty(store, proposal_id) ==
    [found |-> TRUE,
     proposal |-> IF proposal_id \in DOMAIN store THEN store[proposal_id]
                  ELSE EmptyProposal(proposal_id, DEFAULT_CONFIG)]

load_proposal(store, proposal_id) ==
    IF proposal_id \in DOMAIN store
    THEN [found |-> TRUE, proposal |-> store[proposal_id]]
    ELSE [found |-> FALSE, proposal |-> EmptyProposal(proposal_id, DEFAULT_CONFIG)]

(***************************************************************************)
(* storage.py: apply_proposal_to_vault                                     *)
(***************************************************************************)
\* A fault names the I/O call of a commit attempt that raises: at is the call,
\* k the proposal item it belongs to (0 for calls made once per attempt).
NoFault == [at |-> "none", k |-> 0]
Faults(proposal) ==
    {NoFault}
    \cup {[at |-> a, k |-> k] : a \in {"write_entry", "write_summary", "move"},
                                k \in 1..Len(proposal.items)}
    \cup {[at |-> a, k |-> 0] :
            a \in {"append_entries", "git_add", "git_commit", "rev_parse", "append_commits"}}

\* Mutant: the duplicate check never fires.
NeverDuplicate(item, existing_hashes) == FALSE

IsDuplicate(item, existing_hashes) == item.content_hash \in existing_hashes

EntryRecord(item, proposal_id, summary_path, t) ==
    [entry_id |-> item.entry_id,
     proposal_id |-> proposal_id,
     content_hash |-> item.content_hash,
     category |-> item.classification.category,
     entry_path |-> item.target_entry_path,
     summary_path |-> summary_path,
     source_stage_path |-> item.source_stage_path,
     committed_at |-> t]

\* Mutant: the hashes written by this call are not remembered.
ApplyItemForgetful(acc, item, i, proposal_id, fault, t) ==
    IF item.status # "ready" THEN acc
    ELSE IF IsDuplicate(item, acc.existing_hashes)
    THEN [acc EXCEPT !.skipped_duplicates = @ + 1]
    ELSE IF fault = [at |-> "write_entry", k |-> i]
    THEN [acc EXCEPT !.raised = TRUE]
    ELSE LET entryWritten ==
                 [acc EXCEPT !.files = WriteFile(@, item.target_entry_path,
                                                 render_entry_markdown(item, proposal_id)),
                             !.written_paths = Append(@, item.target_entry_path)]
             withSummary == item.summary # <<>> /\ item.target_summary_path # NoPath
         IN  IF withSummary /\ fault = [at |-> "write_summary", k |-> i]
             THEN [entryWritten EXCEPT !.raised = TRUE]
             ELSE LET written ==
                          IF withSummary
                          THEN [entryWritten EXCEPT
                                  !.files = WriteFile(@, item.target_summary_path,
                                                      render_summary_markdown(item)),
                                  !.written_paths = Append(@, item.target_summary_path)]
                          ELSE entryWritten
                  IN  [written EXCEPT
                         !.entry_records =
                             Append(@, EntryRecord(item, proposal_id,
                                        IF withSummary THEN item.target_summary_path
                                        ELSE NoPath, t)),
                         !.committed_count = @ + 1]

\* One iteration of the loop over proposal.items (storage.py:103-140).
ApplyItem(acc, item, i, proposal_id, fault, t) ==
    IF item.status # "ready" THEN acc
    ELSE IF IsDuplicate(item, acc.existing_hashes)
    THEN [acc EXCEPT !.skipped_duplicates = @ + 1]
    ELSE IF fault = [at |-> "write_entry", k |-> i]
    THEN [acc EXCEPT !.raised = TRUE]
    ELSE LET entryWritten ==
                 [acc EXCEPT !.files = WriteFile(@, item.target_entry_path,
                                                 render_entry_markdown(item, proposal_id)),
                             !.written_paths = Append(@, item.target_entry_path)]
             withSummary == item.summary # <<>> /\ item.target_summary_path # NoPath
         IN  IF withSummary /\ fault = [at |-> "write_summary", k |-> i]
             THEN [entryWritten EXCEPT !.raised = TRUE]
             ELSE LET written ==
                          IF withSummary
                          THEN [entryWritten EXCEPT
                                  !.files = WriteFile(@, item.target_summary_path,
                                                      render_summary_markdown(item)),
                                  !.written_paths = Append(@, item.target_summary_path)]
                          ELSE entryWritten
                  IN  [written EXCEPT
                         !.entry_records =
                             Append(@, EntryRecord(item, proposal_id,
                                        IF withSummary THEN item.target_summary_path
                                        ELSE NoPath, t)),
                         !.existing_hashes = @ \cup {item.content_hash},
                         !.committed_count = @ + 1]

RECURSIVE ApplyItems(_, _, _, _, _)
ApplyItems(acc, proposal, i, fault, t) ==
    IF acc.raised \/ i > Len(proposal.items) THEN acc
    ELSE ApplyItems(ApplyItem(acc, proposal.items[i], i, proposal.proposal_id, fault, t),
                    proposal, i + 1, fault, t)

apply_proposal_to_vault(files, proposal, existing_hashes, fault, t) ==
    ApplyItems([files |-> files, entry_records |-> <<>>, written_paths |-> <<>>,
                committed_count |-> 0, skipped_duplicates |-> 0,
                existing_hashes |-> existing_hashes, raised |-> FALSE],
               proposal, 1, fault, t)

(***************************************************************************)
(* commit_flow.py: commit_proposal.  An attempt is a record of the files   *)
(* it has touched so far and of its local variables; failed_at names the   *)
(* call that raised ("" while nothing has raised).                         *)
(***************************************************************************)
\* Mutant: the already-committed check never fires.
NeverCommitted(commit_records, proposal_id) == FALSE

AlreadyCommitted(commit_records, proposal_id) ==
    \E i \in 1..Len(commit_records) : commit_records[i].proposal_id = proposal_id

ExistingHashes(entry_records) ==
    {entry_records[i].content_hash : i \in 1..Len(entry_records)}

\* The attempt's position: phases lists, in the order they happened, the
\* phases the attempt entered and the writes it completed.
Enter(st, phase) ==
    IF st.failed_at # "" THEN st ELSE [st EXCEPT !.phases = Append(@, phase)]

\* commit_flow.py:63-73: the vault writes, then the entries-ledger append.
\* written_paths of commit_proposal is assigned only when
\* apply_proposal_to_vault returns.
WriteEntries(st, proposal, fault, t) ==
    LET applied == apply_proposal_to_vault(st.vault, proposal,
                        ExistingHashes(read_jsonl(st.entries)), fault, t)
    IN  IF applied.raised
        THEN [st EXCEPT !.vault = applied.files, !.failed_at = fault.at,
                        !.wrote = Len(applied.written_paths)]
        ELSE LET returned ==
                     [st EXCEPT !.vault = applied.files,
                                !.phases = Append(@, "vault_written"),
                                !.written_paths = applied.written_paths,
                                !.wrote = Len(applied.written_paths),
                                !.committed_entries = applied.committed_count,
                                !.skipped_duplicates = applied.skipped_duplicates]
             IN  IF applied.entry_records = <<>> THEN returned
                 ELSE IF fault.at = "append_entries"
                 THEN [returned EXCEPT !.failed_at = "append_entries"]
                 ELSE [returned EXCEPT
                         !.phases = Append(@, "entries_appended"),
                         !.entries = append_jsonl_atomic(@, applied.entry_records),
                         !.written_paths = Append(@, EntriesIndexPath)]

\* Mutant: the relocation loop does not skip items that are not ready.
AlwaysMove(item) == TRUE

ShouldMove(item) == item.status = "ready"

\* stage.py:109-125 called from commit_flow.py:75-80.
MoveItem(st, item, i, proposal_id, fault) ==
    IF ~ShouldMove(item) THEN st
    ELSE IF item.source_stage_path \notin DOMAIN st.inbox
    THEN [st EXCEPT !.failed_at = "missing_source", !.cause = "missing_source"]
    ELSE IF fault = [at |-> "move", k |-> i]
    THEN [st EXCEPT !.failed_at = "move"]
    ELSE LET result == move_stage_to_processed(st.inbox, st.processed,
                                                item.source_stage_path, proposal_id)
         IN  [st EXCEPT
                !.processed = result.processed,
                !.inbox = result.inbox,
                !.phases = Append(@, "source_moved"),
                !.moved = Append(@, <<result.destination, item.source_stage_path>>)]

RECURSIVE MoveItems(_, _, _, _)
MoveItems(st, proposal, i, fault) ==
    IF st.failed_at # "" \/ i > Len(proposal.items) THEN st
    ELSE MoveItems(MoveItem(st, proposal.items[i], i, proposal.proposal_id, fault),
                   proposal, i + 1, fault)

CommitMessage(config, proposal, st) ==
    config.commit_prefix \o " apply proposal " \o proposal.proposal_id
    \o " (" \o ToString(st.committed_entries) \o " entries, "
    \o ToString(st.skipped_duplicates) \o " duplicates, "
    \o ToString(CountInvalid(proposal.items)) \o " invalid)"

Range(seq) == {seq[i] : i \in 1..Len(seq)}

\* The tree of HEAD: the tracked vault files and the tracked entries ledger.
\* A repository with no commit tracks nothing.
NoTree == [vault |-> EmptyFiles, entries |-> NoFile]
HeadTree(log) == IF log = <<>> THEN NoTree ELSE log[Len(log)].tree

PathExists(st, path) ==
    IF path = EntriesIndexPath THEN st.entries.exists ELSE path \in DOMAIN st.vault
Tracked(tree, path) ==
    IF path = EntriesIndexPath THEN tree.entries.exists ELSE path \in DOMAIN tree.vault

\* `git add <paths>`: the index takes the working content of the paths (a
\* tracked path that is no longer a file is staged as deleted).  The index
\* equals the tree of HEAD before (every attempt ends in a commit or in
\* `git reset`).
GitAdd(tree, st, paths) ==
    LET present == {path \in paths \ {EntriesIndexPath} : path \in DOMAIN st.vault}
        deleted == paths \ present
    IN  [vault |-> [path \in ((DOMAIN tree.vault) \ deleted) \cup present |->
                        IF path \in present THEN st.vault[path] ELSE tree.vault[path]],
         entries |-> IF EntriesIndexPath \in paths THEN st.entries ELSE tree.entries]

\* commit_flow.py:82-95: git add, git commit, git rev-parse HEAD.  `git
\* commit` without --allow-empty exits non-zero when the index equals the
\* tree of HEAD ("nothing to commit"), and _git raises.
GitCommit(st, proposal, config, fault) ==
    LET unique_paths == Range(st.written_paths)
        index == GitAdd(HeadTree(st.gitLog), st, unique_paths)
        allow_empty == st.committed_entries = 0 /\ unique_paths = {}
    IN  IF st.failed_at # "" THEN st
        ELSE IF unique_paths # {} /\ fault.at = "git_add"
        THEN [st EXCEPT !.failed_at = "git_add"]
        ELSE IF \E path \in unique_paths :
                    ~PathExists(st, path) /\ ~Tracked(HeadTree(st.gitLog), path)
        THEN [st EXCEPT !.failed_at = "git_add", !.cause = "pathspec"]
        ELSE LET added == [st EXCEPT !.gitStaged = @ \cup unique_paths]
             IN  IF fault.at = "git_commit"
                 THEN [added EXCEPT !.failed_at = "git_commit"]
                 ELSE IF ~allow_empty /\ index = HeadTree(st.gitLog)
                 THEN [added EXCEPT !.failed_at = "git_commit",
                                    !.cause = "nothing_to_commit"]
                 ELSE LET committed ==
                              [added EXCEPT
                                 !.gitLog = Append(@, [message |-> CommitMessage(config, proposal, st),
                                                       paths |-> added.gitStaged,
                                                       tree |-> index]),
                                 !.gitStaged = {}]
                      IN  IF fault.at = "rev_parse"
                          THEN [committed EXCEPT !.failed_at = "rev_parse"]
                          ELSE [committed EXCEPT !.git_sha = Len(committed.gitLog),
                                                 !.phases = Append(@, "git_committed")]

\* Mutant: the commit record counts the proposal's ready items as committed.
AppendReadyCount(st, proposal, fault, t) ==
    IF st.failed_at # "" THEN st
    ELSE IF fault.at = "append_commits"
    THEN [st EXCEPT !.failed_at = "append_commits"]
    ELSE [st EXCEPT !.phases = @ \o <<"commit_record_appended", "committed">>,
                    !.commits = append_jsonl_atomic(@,
            <<[proposal_id |-> proposal.proposal_id,
               created_at |-> t,
               git_sha |-> st.git_sha,
               committed_entries |-> CountReady(proposal.items),
               skipped_duplicates |-> st.skipped_duplicates,
               invalid_entries |-> CountInvalid(proposal.items)]>>)]

\* commit_flow.py:97-105.
AppendCommitRecord(st, proposal, fault, t) ==
    IF st.failed_at # "" THEN st
    ELSE IF fault.at = "append_commits"
    THEN [st EXCEPT !.failed_at = "append_commits"]
    ELSE [st EXCEPT !.phases = @ \o <<"commit_record_appended", "committed">>,
                    !.commits = append_jsonl_atomic(@,
            <<[proposal_id |-> proposal.proposal_id,
               created_at |-> t,
               git_sha |-> st.git_sha,
               committed_entries |-> st.committed_entries,
               skipped_duplicates |-> st.skipped_duplicates,
               invalid_entries |-> CountInvalid(proposal.items)]>>)]

\* Mutant: the ledger is removed whatever it held before.
RestoreNothing(previous_content) == NoFile

\* commit_flow.py:30-36: None (no file before) unlinks, a content rewrites it.
RestoreFile(previous_content) ==
    IF previous_content.exists THEN previous_content ELSE NoFile

\* commit_flow.py:122-125: unlink every written path that is a file.
RECURSIVE UnlinkWritten(_, _)
UnlinkWritten(st, paths) ==
    IF paths = <<>> THEN st
    ELSE LET path == Head(paths)
             next == IF path = EntriesIndexPath
                     THEN [st EXCEPT !.entries = NoFile]
                     ELSE IF path \in DOMAIN st.vault
                     THEN [st EXCEPT !.vault = RemoveFile(@, path)]
                     ELSE st
         IN  UnlinkWritten(next, Tail(paths))

\* Mutant: the relocated files stay in the processed area.
KeepMoved(st, moved) == st

\* commit_flow.py:129-132: move the relocated files back, last one first.
RECURSIVE MoveBack(_, _)
MoveBack(st, moved) ==
    IF moved = <<>> THEN st
    ELSE LET pair == moved[Len(moved)]
             next == IF pair[1] \in DOMAIN st.processed
                     THEN [st EXCEPT !.inbox = WriteFile(@, pair[2], st.processed[pair[1]]),
                                     !.processed = RemoveFile(@, pair[1])]
                     ELSE st
         IN  MoveBack(next, SubSeq(moved, 1, Len(moved) - 1))

\* commit_flow.py:117-132: what the except branch does to the files.
RollbackFiles(st, previous_entries_index) ==
    LET reset == [st EXCEPT !.gitStaged = {}]
        unlinked == UnlinkWritten(reset, st.written_paths)
        restored == [unlinked EXCEPT !.entries = RestoreFile(previous_entries_index)]
    IN  MoveBack(restored, st.moved)

\* Mutant: the except branch ends without the bare raise.
RollbackAndReturn(st, previous_entries_index) ==
    [RollbackFiles(st, previous_entries_index) EXCEPT !.rolled_back = TRUE]

\* commit_flow.py:116-134: the except branch; its bare raise surfaces the
\* exception that entered it.
Rollback(st, previous_entries_index) ==
    [RollbackFiles(st, previous_entries_index) EXCEPT
        !.phases = @ \o <<"rolling_back", "failed">>,
        !.rolled_back = TRUE,
        !.error = st.failed_at]

\* Mutant: the staged sources are relocated before the vault is written.
RunCommitMovingFirst(start, proposal, config, fault, t) ==
    LET previous_entries_index == start.entries
        moved == MoveItems(Enter(start, "moving_staged_files"), proposal, 1, fault)
        written == IF moved.failed_at # "" THEN moved
                   ELSE WriteEntries(Enter(moved, "writing_entries"), proposal, fault, t)
        committed == GitCommit(Enter(written, "appending_commit_record"),
                               proposal, config, fault)
        recorded == AppendCommitRecord(committed, proposal, fault, t)
    IN  IF recorded.failed_at # "" THEN Rollback(recorded, previous_entries_index)
        ELSE recorded

\* commit_flow.py:51-134: the attempt after validation.
RunCommit(start, proposal, config, fault, t) ==
    LET previous_entries_index == start.entries
        written == WriteEntries(Enter(start, "writing_entries"), proposal, fault, t)
        moved == MoveItems(Enter(written, "moving_staged_files"), proposal, 1, fault)
        committed == GitCommit(Enter(moved, "appending_commit_record"),
                               proposal, config, fault)
        recorded == AppendCommitRecord(committed, proposal, fault, t)
    IN  IF recorded.failed_at # "" THEN Rollback(recorded, previous_entries_index)
        ELSE recorded

(***************************************************************************)
(* The observation of the last call: what commit_proposal was given, how   *)
(* it ended, and the files as they were when it was called.                *)
(***************************************************************************)
Snapshot ==
    [vault |-> vault, entries |-> entriesIndex, commits |-> commitsIndex,
     inbox |-> inbox, processed |-> processed, gitLog |-> gitLog]

NoSnapshot ==
    [vault |-> EmptyFiles, entries |-> NoFile, commits |-> NoFile,
     inbox |-> EmptyFiles, processed |-> EmptyFiles, gitLog |-> <<>>]

NoCall ==
    [op |-> "none", proposal_id |-> "", outcome |-> "", error |-> "",
     rolled_back |-> FALSE, phases |-> <<>>, cause |-> "",
     after_failure |-> "", failed_at |-> "", wrote |-> 0,
     committed_entries |-> 0, skipped_duplicates |-> 0, invalid_entries |-> 0,
     moved |-> <<>>, pre |-> NoSnapshot]

\* outcome: "ok" when a CommitResult was returned, "failed" when an exception
\* of the try block surfaced, else the check of Validate that refused.
\* failed_at: the call that raised inside the try block; error: the exception
\* the caller got; rolled_back: the except branch ran.
\* phases: the phases the attempt entered and the writes it completed.
\* cause: why the attempt failed: "fault" (an I/O call was made to fail),
\* "missing_source", "nothing_to_commit" or "pathspec" (the program's own
\* state made the call fail), "" when nothing failed.
\* after_failure: set for an attempt in which no I/O call was made to fail
\* and which re-runs the call right before, an attempt to commit the same
\* proposal in which an I/O call was made to fail and which was rolled back:
\* the call that raised then ("" otherwise).
CommitCall(proposal_id, outcome) ==
    [NoCall EXCEPT !.op = "commit", !.proposal_id = proposal_id, !.outcome = outcome,
                   !.after_failure =
                       IF /\ last.op = "commit" /\ last.outcome = "failed"
                          /\ last.proposal_id = proposal_id /\ last.cause = "fault"
                       THEN last.failed_at ELSE "",
                   !.pre = Snapshot]

\* The two processes, and a process that is in no call.
Procs == {1, 2}
IdleProc ==
    [pc |-> "idle", proposal_id |-> "", runs |-> 0, existing_hashes |-> {},
     previous_entries_index |-> NoFile, entry_records |-> <<>>,
     written_paths |-> <<>>, moved |-> <<>>, committed_entries |-> 0,
     skipped_duplicates |-> 0, existing |-> NoFile, git_sha |-> 0]

\* A writer that is in no call.
Idle == [pc |-> "idle", previous |-> NoFile, listed |-> FALSE,
         old |-> NoFile, new |-> NoFile]

(***************************************************************************)
(* Initial state: the layout ensure_layout creates, no file in it, and no  *)
(* git repository yet.                                                     *)
(***************************************************************************)
Init ==
    /\ now = 0
    /\ gitRepo = FALSE
    /\ inbox = EmptyFiles
    /\ processed = EmptyFiles
    /\ vault = EmptyFiles
    /\ entriesIndex = NoFile
    /\ commitsIndex = NoFile
    /\ proposals = [p \in {} |-> 0]
    /\ gitLog = <<>>
    /\ gitStaged = {}
    /\ last = NoCall
    /\ tmpFile = NoFile
    /\ writer = Idle
    /\ seen = [content |-> NoFile, old |-> NoFile, new |-> NoFile, during |-> "idle"]
    /\ procs = [p \in Procs |-> IdleProc]
    /\ results = {}
    /\ overlapped = FALSE

\* The wall clock advances between calls.
Tick ==
    /\ now < MaxTime
    /\ now' = now + 1
    /\ last' = NoCall
    /\ UNCHANGED <<gitRepo, inbox, processed, vault, entriesIndex, commitsIndex,
                   proposals, gitLog, gitStaged>>
    /\ UNCHANGED aux

\* `git init` in the project root.
GitInit ==
    /\ ~gitRepo
    /\ gitRepo' = TRUE
    /\ last' = NoCall
    /\ UNCHANGED <<now, inbox, processed, vault, entriesIndex, commitsIndex,
                   proposals, gitLog, gitStaged>>
    /\ UNCHANGED aux

\* stage.py:32-48.
stage_add(base, raw, present) ==
    /\ Cardinality(DOMAIN inbox) + Cardinality(DOMAIN processed) < MaxStaged
    /\ inbox' = IF present
                THEN WriteFile(inbox, StageDestination(inbox, now, 0, base), raw)
                ELSE inbox
    /\ last' = NoCall
    /\ UNCHANGED <<now, gitRepo, processed, vault, entriesIndex, commitsIndex,
                   proposals, gitLog, gitStaged>>
    /\ UNCHANGED aux

StageAdd == \E base \in SourceNames, raw \in RawTexts, present \in BOOLEAN :
                stage_add(base, raw, present)

\* Mutant: the build applies its plan to the vault at once.
BuildAndApply ==
    \E config \in Configs, suffix \in Suffixes :
        /\ Cardinality(DOMAIN proposals) < MaxProposals
        /\ proposals' = save_proposal(proposals,
                            build_proposal(inbox, vault, config,
                                           NewProposalId(now, suffix), now))
        /\ vault' = apply_proposal_to_vault(vault,
                            build_proposal(inbox, vault, config,
                                           NewProposalId(now, suffix), now),
                            {}, NoFault, now).files
        /\ last' = NoCall
        /\ UNCHANGED <<now, gitRepo, inbox, processed, entriesIndex, commitsIndex,
                       gitLog, gitStaged>>
        /\ UNCHANGED aux

\* build_proposal followed by save_proposal (proposal.py:27-104, 147-155).
BuildAndSave ==
    \E config \in Configs, suffix \in Suffixes :
        /\ Cardinality(DOMAIN proposals) < MaxProposals
        /\ proposals' = save_proposal(proposals,
                            build_proposal(inbox, vault, config,
                                           NewProposalId(now, suffix), now))
        /\ last' = NoCall
        /\ UNCHANGED <<now, gitRepo, inbox, processed, vault, entriesIndex, commitsIndex,
                       gitLog, gitStaged>>
        /\ UNCHANGED aux

ProposalIds == {NewProposalId(t, suffix) : t \in 0..MaxTime, suffix \in Suffixes}

\* Mutant: the proposal is loaded, and the commit ledger read, before the
\* repository is looked for.
ValidateLoadFirst(proposal_id) ==
    IF ~load_proposal(proposals, proposal_id).found THEN "not_found"
    ELSE IF AlreadyCommitted(read_jsonl(commitsIndex), proposal_id) THEN "already_committed"
    ELSE IF ~gitRepo THEN "no_git"
    ELSE ""

\* commit_flow.py:40-49: the checks made before anything is written.
Validate(proposal_id) ==
    IF ~gitRepo THEN "no_git"
    ELSE IF ~load_proposal(proposals, proposal_id).found THEN "not_found"
    ELSE IF AlreadyCommitted(read_jsonl(commitsIndex), proposal_id) THEN "already_committed"
    ELSE ""

\* commit_flow.py:39-134.
commit_proposal(proposal_id, config, fault) ==
    IF Validate(proposal_id) # ""
    THEN /\ last' = [CommitCall(proposal_id, Validate(proposal_id))
                        EXCEPT !.phases = <<"started", "validating", "failed">>]
         /\ UNCHANGED <<now, gitRepo, inbox, processed, vault, entriesIndex,
                        commitsIndex, proposals, gitLog, gitStaged>>
         /\ UNCHANGED aux
    ELSE LET proposal == load_proposal(proposals, proposal_id).proposal
             start == [vault |-> vault, entries |-> entriesIndex,
                       commits |-> commitsIndex, inbox |-> inbox,
                       processed |-> processed, gitLog |-> gitLog,
                       gitStaged |-> gitStaged, written_paths |-> <<>>,
                       moved |-> <<>>, failed_at |-> "", cause |-> "", wrote |-> 0,
                       error |-> "", rolled_back |-> FALSE,
                       phases |-> <<"started", "validating">>,
                       committed_entries |-> 0, skipped_duplicates |-> 0,
                       git_sha |-> 0]
         IN  \E end \in {RunCommit(start, proposal, config, fault, now)} :
             /\ Len(gitLog) < MaxGitLog
             /\ vault' = end.vault
             /\ entriesIndex' = end.entries
             /\ commitsIndex' = end.commits
             /\ inbox' = end.inbox
             /\ processed' = end.processed
             /\ gitLog' = end.gitLog
             /\ gitStaged' = end.gitStaged
             /\ last' = [CommitCall(proposal_id,
                                    IF end.error = "" THEN "ok" ELSE "failed")
                           EXCEPT !.failed_at = end.failed_at,
                                  !.error = end.error,
                                  !.phases = end.phases,
                                  !.rolled_back = end.rolled_back,
                                  !.cause = IF end.failed_at = "" THEN ""
                                            ELSE IF end.cause = "" THEN "fault"
                                            ELSE end.cause,
                                  !.after_failure =
                                      IF end.failed_at # "" /\ end.cause = ""
                                      THEN "" ELSE @,
                                  !.wrote = end.wrote,
                                  !.committed_entries = end.committed_entries,
                                  !.skipped_duplicates = end.skipped_duplicates,
                                  !.invalid_entries = CountInvalid(proposal.items),
                                  !.moved = end.moved]
             /\ UNCHANGED <<now, gitRepo, proposals>>
             /\ UNCHANGED aux

Commit ==
    \E proposal_id \in ProposalIds, config \in Configs :
        \E fault \in (IF proposal_id \in DOMAIN proposals
                      THEN Faults(proposals[proposal_id]) ELSE {NoFault}) :
            commit_proposal(proposal_id, config, fault)

Next == Tick \/ GitInit \/ StageAdd \/ BuildAndSave \/ Commit

Spec == Init /\ [][Next]_vars

(***************************************************************************)
(* WriteSpec: the writes a commit attempt makes to the entries ledger, one *)
(* file-system call at a time, and a reader of the ledger's path that may  *)
(* read between any two calls.  The text of a file reaches it a line at a  *)
(* time.                                                                   *)
(***************************************************************************)
MaxLines == 3

Line(n) == "line" \o ToString(n)
NewLines(from, count) == [i \in 1..count |-> Line(from + i)]

WriteFrame ==
    UNCHANGED <<now, gitRepo, inbox, processed, vault, commitsIndex, proposals,
                gitLog, gitStaged, last, procs, results, overlapped>>

\* A write of the ledger's path is under way: old is the file when the write
\* began, new the file the write is to leave.
InWrite == writer.pc \in {"tmp_write", "restore_write"}

\* commit_flow.py:54-56: the attempt reads the ledger before the try block.
AttemptBegins ==
    /\ writer.pc = "idle"
    /\ writer' = [Idle EXCEPT !.pc = "try", !.previous = entriesIndex]
    /\ UNCHANGED <<entriesIndex, tmpFile, seen>>
    /\ WriteFrame

\* utils.py:64-69, 31-32: append_jsonl_atomic reads the existing text and
\* atomic_write_text creates the temporary file beside the ledger.
AppendOpensTmp ==
    \E count \in 1..2 :
        /\ writer.pc = "try" /\ ~writer.listed
        /\ Len(read_jsonl(entriesIndex)) + count <= MaxLines
        /\ writer' = [writer EXCEPT
                        !.pc = "tmp_write",
                        !.old = entriesIndex,
                        !.new = append_jsonl_atomic(entriesIndex,
                                    NewLines(Len(read_jsonl(entriesIndex)), count))]
        /\ tmpFile' = [exists |-> TRUE, rows |-> <<>>]
        /\ UNCHANGED <<entriesIndex, seen>>
        /\ WriteFrame

\* utils.py:34-35: the content is written to the temporary file.
TmpWrite ==
    /\ writer.pc = "tmp_write" /\ Len(tmpFile.rows) < Len(writer.new.rows)
    /\ tmpFile' = [tmpFile EXCEPT !.rows = Append(@, writer.new.rows[Len(@) + 1])]
    /\ UNCHANGED <<entriesIndex, writer, seen>>
    /\ WriteFrame

\* utils.py:37-39: the write raises; the finally clause removes the temporary
\* file and the exception reaches the except branch of commit_proposal.
TmpFails ==
    /\ writer.pc = "tmp_write"
    /\ tmpFile' = NoFile
    /\ writer' = [writer EXCEPT !.pc = "unlink_written"]
    /\ UNCHANGED <<entriesIndex, seen>>
    /\ WriteFrame

\* utils.py:36 and commit_flow.py:72-73: os.replace puts the temporary file at
\* the ledger's path; the ledger is then listed in written_paths.
TmpReplace ==
    /\ writer.pc = "tmp_write" /\ tmpFile.rows = writer.new.rows
    /\ entriesIndex' = tmpFile
    /\ tmpFile' = NoFile
    /\ writer' = [writer EXCEPT !.pc = "try", !.listed = TRUE]
    /\ UNCHANGED seen
    /\ WriteFrame

\* commit_flow.py:107-114: the attempt returns its CommitResult.
AttemptReturns ==
    /\ writer.pc = "try"
    /\ writer' = Idle
    /\ UNCHANGED <<entriesIndex, tmpFile, seen>>
    /\ WriteFrame

\* commit_flow.py:116: a call of the try block raises.
AttemptRaises ==
    /\ writer.pc = "try"
    /\ writer' = [writer EXCEPT !.pc = "unlink_written"]
    /\ UNCHANGED <<entriesIndex, tmpFile, seen>>
    /\ WriteFrame

\* commit_flow.py:122-125: every listed path that is a file is unlinked.
RollbackUnlinks ==
    /\ writer.pc = "unlink_written"
    /\ entriesIndex' = IF writer.listed THEN NoFile ELSE entriesIndex
    /\ writer' = [writer EXCEPT !.pc = "restore"]
    /\ UNCHANGED <<tmpFile, seen>>
    /\ WriteFrame

\* commit_flow.py:30-36: _restore_file unlinks the ledger when there was none
\* before; otherwise path.write_text opens the ledger's own path for
\* writing, which creates or truncates it.
RestoreOpens ==
    /\ writer.pc = "restore"
    /\ IF writer.previous.exists
       THEN /\ entriesIndex' = [exists |-> TRUE, rows |-> <<>>]
            /\ writer' = [writer EXCEPT !.pc = "restore_write",
                                        !.old = entriesIndex,
                                        !.new = writer.previous]
       ELSE /\ entriesIndex' = NoFile
            /\ writer' = Idle
    /\ UNCHANGED <<tmpFile, seen>>
    /\ WriteFrame

\* commit_flow.py:36: write_text writes the previous text into the file.
RestoreWrites ==
    /\ writer.pc = "restore_write" /\ Len(entriesIndex.rows) < Len(writer.new.rows)
    /\ entriesIndex' = [entriesIndex EXCEPT
                           !.rows = Append(@, writer.new.rows[Len(@) + 1])]
    /\ UNCHANGED <<tmpFile, writer, seen>>
    /\ WriteFrame

\* commit_flow.py:36: write_text closes the file.
RestoreCloses ==
    /\ writer.pc = "restore_write" /\ entriesIndex.rows = writer.new.rows
    /\ writer' = Idle
    /\ UNCHANGED <<entriesIndex, tmpFile, seen>>
    /\ WriteFrame

\* utils.py:51-61: another process reads the ledger's path.
ReaderReads ==
    /\ seen' = [content |-> entriesIndex,
                old |-> IF InWrite THEN writer.old ELSE entriesIndex,
                new |-> IF InWrite THEN writer.new ELSE entriesIndex,
                during |-> writer.pc]
    /\ UNCHANGED <<entriesIndex, tmpFile, writer>>
    /\ WriteFrame

WriteNext ==
    \/ AttemptBegins \/ AppendOpensTmp \/ TmpWrite \/ TmpFails \/ TmpReplace
    \/ AttemptReturns \/ AttemptRaises \/ RollbackUnlinks \/ RestoreOpens
    \/ RestoreWrites \/ RestoreCloses \/ ReaderReads

WriteSpec == Init /\ [][WriteNext]_vars

(***************************************************************************)
(* ConcurrentSpec: two processes run commit_proposal on the same project   *)
(* root with nothing serializing them.  A step is what one process does    *)
(* between two reads or writes of a ledger: the checks and reads before    *)
(* the try block, the vault writes, each read and each rewrite of          *)
(* append_jsonl_atomic, the relocation loop, the git calls, the except     *)
(* branch.  No I/O call is made to fail.                                   *)
(***************************************************************************)
MaxRuns == 1

\* The inboxes stage_add can have filled at time 0.
RECURSIVE StageAll(_, _)
StageAll(files, raws) ==
    IF raws = <<>> THEN files
    ELSE StageAll(WriteFile(files, StageDestination(files, 0, 0, "a"), Head(raws)),
                  Tail(raws))

StagedRaws == UNION {[1..n -> RawTexts] : n \in 0..MaxStaged}

\* Two proposals built from the same inbox, one second apart.
ConcurrentInit ==
    /\ now = 1
    /\ gitRepo = TRUE
    /\ \E raws \in StagedRaws :
          /\ inbox = StageAll(EmptyFiles, raws)
          /\ proposals =
                save_proposal(
                    save_proposal([p \in {} |-> 0],
                        build_proposal(inbox, EmptyFiles, DEFAULT_CONFIG,
                                       NewProposalId(0, "aa"), 0)),
                    build_proposal(inbox, EmptyFiles, DEFAULT_CONFIG,
                                   NewProposalId(1, "aa"), 1))
    /\ processed = EmptyFiles
    /\ vault = EmptyFiles
    /\ entriesIndex = NoFile
    /\ commitsIndex = NoFile
    /\ gitLog = <<>>
    /\ gitStaged = {}
    /\ last = NoCall
    /\ tmpFile = NoFile
    /\ writer = Idle
    /\ seen = [content |-> NoFile, old |-> NoFile, new |-> NoFile, during |-> "idle"]
    /\ procs = [p \in Procs |-> IdleProc]
    /\ results = {}
    /\ overlapped = FALSE

ConcurrentFrame == UNCHANGED <<now, gitRepo, proposals, last, tmpFile, writer, seen>>

\* The files as process p finds them, with p's local variables.
View(p) ==
    [vault |-> vault, entries |-> entriesIndex, commits |-> commitsIndex,
     inbox |-> inbox, processed |-> processed, gitLog |-> gitLog,
     gitStaged |-> gitStaged, written_paths |-> procs[p].written_paths,
     moved |-> procs[p].moved, failed_at |-> "", cause |-> "", wrote |-> 0,
     error |-> "", rolled_back |-> FALSE, phases |-> <<>>,
     committed_entries |-> procs[p].committed_entries,
     skipped_duplicates |-> procs[p].skipped_duplicates,
     git_sha |-> procs[p].git_sha]

ProposalOf(p) == proposals[procs[p].proposal_id]

\* commit_flow.py:40-59: the checks, and the reads of both ledgers.
CValidate(p, proposal_id) ==
    /\ procs[p].pc = "idle" /\ procs[p].runs < MaxRuns
    /\ Validate(proposal_id) = ""
    /\ procs' = [procs EXCEPT ![p] =
                    [IdleProc EXCEPT
                        !.pc = "apply",
                        !.proposal_id = proposal_id,
                        !.runs = procs[p].runs + 1,
                        !.existing_hashes = ExistingHashes(read_jsonl(entriesIndex)),
                        !.previous_entries_index = entriesIndex]]
    /\ overlapped' = (overlapped \/ \E q \in Procs \ {p} : procs[q].pc # "idle")
    /\ UNCHANGED <<inbox, processed, vault, entriesIndex, commitsIndex, gitLog,
                   gitStaged, results>>
    /\ ConcurrentFrame

\* commit_flow.py:64-68: apply_proposal_to_vault.
CApply(p) ==
    /\ procs[p].pc = "apply"
    /\ \E applied \in {apply_proposal_to_vault(vault, ProposalOf(p),
                              procs[p].existing_hashes, NoFault, now)} :
          /\ vault' = applied.files
          /\ procs' = [procs EXCEPT ![p] =
                          [@ EXCEPT
                             !.pc = IF applied.entry_records = <<>>
                                    THEN "move" ELSE "read_entries",
                             !.entry_records = applied.entry_records,
                             !.written_paths = applied.written_paths,
                             !.committed_entries = applied.committed_count,
                             !.skipped_duplicates = applied.skipped_duplicates]]
    /\ UNCHANGED <<inbox, processed, entriesIndex, commitsIndex, gitLog, gitStaged,
                   results, overlapped>>
    /\ ConcurrentFrame

\* utils.py:65-67: append_jsonl_atomic reads the entries ledger.
CReadEntries(p) ==
    /\ procs[p].pc = "read_entries"
    /\ procs' = [procs EXCEPT ![p] =
                    [@ EXCEPT !.pc = "write_entries", !.existing = entriesIndex]]
    /\ UNCHANGED <<inbox, processed, vault, entriesIndex, commitsIndex, gitLog,
                   gitStaged, results, overlapped>>
    /\ ConcurrentFrame

\* utils.py:68-69, commit_flow.py:72-73: the ledger is replaced by the text
\* read plus the new records.
CWriteEntries(p) ==
    /\ procs[p].pc = "write_entries"
    /\ entriesIndex' = append_jsonl_atomic(procs[p].existing, procs[p].entry_records)
    /\ procs' = [procs EXCEPT ![p] =
                    [@ EXCEPT !.pc = "move",
                              !.written_paths = Append(@, EntriesIndexPath)]]
    /\ UNCHANGED <<inbox, processed, vault, commitsIndex, gitLog, gitStaged,
                   results, overlapped>>
    /\ ConcurrentFrame

\* commit_flow.py:75-80: the ready sources are relocated.
CMove(p) ==
    /\ procs[p].pc = "move"
    /\ \E st \in {MoveItems(View(p), ProposalOf(p), 1, NoFault)} :
          /\ inbox' = st.inbox
          /\ processed' = st.processed
          /\ procs' = [procs EXCEPT ![p] =
                          [@ EXCEPT !.pc = IF st.failed_at # "" THEN "rollback" ELSE "git",
                                    !.moved = st.moved]]
    /\ UNCHANGED <<vault, entriesIndex, commitsIndex, gitLog, gitStaged,
                   results, overlapped>>
    /\ ConcurrentFrame

\* commit_flow.py:82-95: git add, git commit, git rev-parse HEAD.
CGit(p) ==
    /\ procs[p].pc = "git"
    /\ \E st \in {GitCommit(View(p), ProposalOf(p), DEFAULT_CONFIG, NoFault)} :
          /\ gitLog' = st.gitLog
          /\ gitStaged' = st.gitStaged
          /\ procs' = [procs EXCEPT ![p] =
                          [@ EXCEPT !.pc = IF st.failed_at # "" THEN "rollback"
                                           ELSE "read_commits",
                                    !.git_sha = st.git_sha]]
    /\ UNCHANGED <<inbox, processed, vault, entriesIndex, commitsIndex,
                   results, overlapped>>
    /\ ConcurrentFrame

\* utils.py:65-67: append_jsonl_atomic reads the commit ledger.
CReadCommits(p) ==
    /\ procs[p].pc = "read_commits"
    /\ procs' = [procs EXCEPT ![p] =
                    [@ EXCEPT !.pc = "write_commits", !.existing = commitsIndex]]
    /\ UNCHANGED <<inbox, processed, vault, entriesIndex, commitsIndex, gitLog,
                   gitStaged, results, overlapped>>
    /\ ConcurrentFrame

\* utils.py:68-69, commit_flow.py:97-114: the commit ledger is replaced by the
\* text read plus the commit record, and the CommitResult is returned.
CWriteCommits(p) ==
    /\ procs[p].pc = "write_commits"
    /\ commitsIndex' =
          AppendCommitRecord([View(p) EXCEPT !.commits = procs[p].existing],
                             ProposalOf(p), NoFault, now).commits
    /\ results' = results \cup
                       {[proposal_id |-> procs[p].proposal_id,
                         committed_entries |-> procs[p].committed_entries]}
    /\ procs' = [procs EXCEPT ![p] = [IdleProc EXCEPT !.runs = procs[p].runs]]
    /\ UNCHANGED <<inbox, processed, vault, entriesIndex, gitLog, gitStaged, overlapped>>
    /\ ConcurrentFrame

\* commit_flow.py:116-134: the except branch.
CRollback(p) ==
    /\ procs[p].pc = "rollback"
    /\ \E st \in {RollbackFiles(View(p), procs[p].previous_entries_index)} :
          /\ vault' = st.vault
          /\ entriesIndex' = st.entries
          /\ inbox' = st.inbox
          /\ processed' = st.processed
          /\ gitStaged' = st.gitStaged
    /\ procs' = [procs EXCEPT ![p] = [IdleProc EXCEPT !.runs = procs[p].runs]]
    /\ UNCHANGED <<commitsIndex, gitLog, results, overlapped>>
    /\ ConcurrentFrame

ConcurrentNext ==
    \E p \in Procs :
        \/ \E proposal_id \in ProposalIds : CValidate(p, proposal_id)
        \/ CApply(p) \/ CReadEntries(p) \/ CWriteEntries(p) \/ CMove(p)
        \/ CGit(p) \/ CReadCommits(p) \/ CWriteCommits(p) \/ CRollback(p)

ConcurrentSpec == ConcurrentInit /\ [][ConcurrentNext]_vars

(***************************************************************************)
(* BuildSpec: builds taken on their own.  The inbox is any set of staged   *)
(* files the bounds allow, whatever their staging time, counter, name and  *)
(* raw content; a build runs under any configuration of BuildConfigs, and  *)
(* the clock may advance between two builds.                               *)
(***************************************************************************)
BuildPaths ==
    {stage_inbox \o "/" \o StagedName(k[1], k[2], k[3]) :
        k \in {k \in StagedKeys : k[2] <= 1}}

BuildInboxes ==
    UNION {[S -> BuildRaws] : S \in {S \in SUBSET BuildPaths : Cardinality(S) <= MaxStaged}}

\* A project root as ensure_layout leaves it, and the root after an earlier
\* session staged the long note, built a proposal of it and committed it.
FreshRoot ==
    [vault |-> EmptyFiles, entries |-> NoFile, commits |-> NoFile,
     inbox |-> EmptyFiles, processed |-> EmptyFiles, gitLog |-> <<>>,
     gitStaged |-> {}, written_paths |-> <<>>, moved |-> <<>>, failed_at |-> "",
     cause |-> "", wrote |-> 0, error |-> "", rolled_back |-> FALSE,
     phases |-> <<"started", "validating">>, committed_entries |-> 0,
     skipped_duplicates |-> 0, git_sha |-> 0]

EarlierProposal ==
    build_proposal(WriteFile(EmptyFiles, StageDestination(EmptyFiles, 0, 0, "a"), "long"),
                   EmptyFiles, DEFAULT_CONFIG, NewProposalId(0, "zz"), 0)

ArchivedRoot ==
    RunCommit([FreshRoot EXCEPT !.inbox =
                   WriteFile(EmptyFiles, StageDestination(EmptyFiles, 0, 0, "a"), "long")],
              EarlierProposal, DEFAULT_CONFIG, NoFault, 0)

BuildInit ==
    /\ now = 0
    /\ inbox \in BuildInboxes
    /\ \E earlier \in {FreshRoot, ArchivedRoot} :
          /\ gitRepo = (earlier.gitLog # <<>>)
          /\ processed = earlier.processed
          /\ vault = earlier.vault
          /\ entriesIndex = earlier.entries
          /\ commitsIndex = earlier.commits
          /\ proposals = IF earlier.gitLog = <<>> THEN [p \in {} |-> 0]
                         ELSE save_proposal([p \in {} |-> 0], EarlierProposal)
          /\ gitLog = earlier.gitLog
          /\ gitStaged = earlier.gitStaged
    /\ last = NoCall
    /\ tmpFile = NoFile
    /\ writer = Idle
    /\ seen = [content |-> NoFile, old |-> NoFile, new |-> NoFile, during |-> "idle"]
    /\ procs = [p \in Procs |-> IdleProc]
    /\ results = {}
    /\ overlapped = FALSE

\* build_proposal followed by save_proposal, under a configuration the user wrote.
BuildConfigured ==
    \E config \in BuildConfigs, suffix \in Suffixes :
        /\ Cardinality(DOMAIN proposals \ {EarlierProposal.proposal_id}) < MaxProposals
        /\ proposals' = save_proposal(proposals,
                            build_proposal(inbox, vault, config,
                                           NewProposalId(now, suffix), now))
        /\ last' = NoCall
        /\ UNCHANGED <<now, gitRepo, inbox, processed, vault, entriesIndex, commitsIndex,
                       gitLog, gitStaged>>
        /\ UNCHANGED aux

BuildNext == Tick \/ BuildConfigured

BuildSpec == BuildInit /\ [][BuildNext]_vars

(***************************************************************************)
(* StoreSpec: the proposal store.  Files are staged, proposals are built   *)
(* and saved under the id the clock and uuid4 give them, and commits,      *)
(* successful or failed, run in between.  last records the build or commit *)
(* made last.                                                              *)
(***************************************************************************)
StoreFaults == {NoFault, [at |-> "append_commits", k |-> 0]}

StoreInit ==
    /\ now = 0
    /\ gitRepo = TRUE
    /\ inbox = EmptyFiles
    /\ processed = EmptyFiles
    /\ vault = EmptyFiles
    /\ entriesIndex = NoFile
    /\ commitsIndex = NoFile
    /\ proposals = [p \in {} |-> 0]
    /\ gitLog = <<>>
    /\ gitStaged = {}
    /\ last = NoCall
    /\ tmpFile = NoFile
    /\ writer = Idle
    /\ seen = [content |-> NoFile, old |-> NoFile, new |-> NoFile, during |-> "idle"]
    /\ procs = [p \in Procs |-> IdleProc]
    /\ results = {}
    /\ overlapped = FALSE

\* build_proposal, then save_proposal under the id _new_proposal_id made.
BuildStored ==
    \E suffix \in StoreSuffixes :
        /\ Cardinality(DOMAIN proposals) < MaxProposals
        /\ proposals' = save_proposal(proposals,
                            build_proposal(inbox, vault, DEFAULT_CONFIG,
                                           NewProposalId(now, suffix), now))
        /\ last' = [NoCall EXCEPT !.op = "build",
                                  !.proposal_id = NewProposalId(now, suffix),
                                  !.outcome = "ok"]
        /\ UNCHANGED <<now, gitRepo, inbox, processed, vault, entriesIndex, commitsIndex,
                       gitLog, gitStaged>>
        /\ UNCHANGED aux

StoreCommit ==
    \E proposal_id \in StoreIds, fault \in StoreFaults :
        commit_proposal(proposal_id, DEFAULT_CONFIG, fault)

StoreNext == Tick \/ StageAdd \/ BuildStored \/ StoreCommit

StoreSpec == StoreInit /\ [][StoreNext]_vars

(***************************************************************************)
(* StageSpec: stage add on its own, over any inbox the bounds allow.  last *)
(* records the call and the files before it, results what it returned and  *)
(* the content of the source it was given.                                 *)
(***************************************************************************)
StageInit ==
    /\ now = 0
    /\ gitRepo = FALSE
    /\ inbox \in BuildInboxes
    /\ processed = EmptyFiles
    /\ vault = EmptyFiles
    /\ entriesIndex = NoFile
    /\ commitsIndex = NoFile
    /\ proposals = [p \in {} |-> 0]
    /\ gitLog = <<>>
    /\ gitStaged = {}
    /\ last = NoCall
    /\ tmpFile = NoFile
    /\ writer = Idle
    /\ seen = [content |-> NoFile, old |-> NoFile, new |-> NoFile, during |-> "idle"]
    /\ procs = [p \in Procs |-> IdleProc]
    /\ results = {}
    /\ overlapped = FALSE

\* stage.py:32-48: present says whether the source exists and is a regular file.
StageAdding ==
    \E base \in BuildNames, raw \in BuildRaws, present \in BOOLEAN :
        /\ Cardinality(DOMAIN inbox) < MaxStaged
        /\ inbox' = IF present
                    THEN WriteFile(inbox, StageDestination(inbox, now, 0, base), raw)
                    ELSE inbox
        /\ last' = [NoCall EXCEPT !.op = "stage_add",
                                  !.outcome = IF present THEN "ok" ELSE "not_found",
                                  !.pre = Snapshot]
        /\ results' = {[source |-> raw, name |-> base,
                        destination |-> IF present
                                        THEN StageDestination(inbox, now, 0, base)
                                        ELSE NoPath]}
        /\ UNCHANGED <<now, gitRepo, processed, vault, entriesIndex, commitsIndex,
                       proposals, gitLog, gitStaged>>
        /\ UNCHANGED <<tmpFile, writer, seen, procs, overlapped>>

StageNext == Tick \/ StageAdding

StageSpec == StageInit /\ [][StageNext]_vars

(***************************************************************************)
(* MoveSpec: move_stage_to_processed on its own.  The inbox holds files    *)
(* staged by stage add and files the user put into a subdirectory; each    *)
(* step is one call, for any source path and proposal id.  last records    *)
(* the call and the files before it, results what it was given and what it *)
(* returned.                                                               *)
(***************************************************************************)
MovePaths ==
    UNION {{stage_inbox \o "/" \o StagedName(t, 0, base), SubdirPath(StagedName(t, 0, base))}
                : t \in 0..MaxTime, base \in SourceNames}

MoveInboxes ==
    UNION {[S -> RawTexts] : S \in {S \in SUBSET MovePaths : Cardinality(S) <= MaxStaged}}

MoveInit ==
    /\ now = 0
    /\ gitRepo = FALSE
    /\ inbox \in MoveInboxes
    /\ processed = EmptyFiles
    /\ vault = EmptyFiles
    /\ entriesIndex = NoFile
    /\ commitsIndex = NoFile
    /\ proposals = [p \in {} |-> 0]
    /\ gitLog = <<>>
    /\ gitStaged = {}
    /\ last = NoCall
    /\ tmpFile = NoFile
    /\ writer = Idle
    /\ seen = [content |-> NoFile, old |-> NoFile, new |-> NoFile, during |-> "idle"]
    /\ procs = [p \in Procs |-> IdleProc]
    /\ results = {}
    /\ overlapped = FALSE

MoveToProcessed ==
    \E source_rel_path \in MovePaths, proposal_id \in ProposalIds :
        \E result \in {move_stage_to_processed(inbox, processed,
                                                source_rel_path, proposal_id)} :
            /\ inbox' = result.inbox
            /\ processed' = result.processed
            /\ last' = [NoCall EXCEPT !.op = "move", !.proposal_id = proposal_id,
                                      !.outcome = IF result.found THEN "ok" ELSE "not_found",
                                      !.pre = Snapshot]
            /\ results' = {[source |-> source_rel_path,
                            destination |-> result.destination]}
            /\ UNCHANGED <<now, gitRepo, vault, entriesIndex, commitsIndex,
                           proposals, gitLog, gitStaged>>
            /\ UNCHANGED <<tmpFile, writer, seen, procs, overlapped>>

MoveNext == MoveToProcessed

MoveSpec == MoveInit /\ [][MoveNext]_vars

(***************************************************************************)
(* Properties                                                              *)
(***************************************************************************)
EntryRows == read_jsonl(entriesIndex)
CommitRows == read_jsonl(commitsIndex)

CommitRan == last.op = "commit" /\ last.outcome \in {"ok", "failed"}
CommitOk == last.op = "commit" /\ last.outcome = "ok"
CommitFailedAt(calls) ==
    last.op = "commit" /\ last.outcome = "failed" /\ last.failed_at \in calls

LastItems == proposals[last.proposal_id].items
PreHashes == ExistingHashes(read_jsonl(last.pre.entries))

\* The file at path is the same in both file maps (absent in both, or equal).
SameFile(before, after, path) ==
    /\ path \in DOMAIN before <=> path \in DOMAIN after
    /\ path \in DOMAIN before => before[path] = after[path]

VaultAsBefore == vault = last.pre.vault
LedgersAsBefore == entriesIndex = last.pre.entries /\ commitsIndex = last.pre.commits
StageAsBefore == inbox = last.pre.inbox /\ processed = last.pre.processed

\* C1: no two records of the entries ledger carry the same content_hash.
C1_UniqueContentHash ==
    \A i, j \in 1..Len(EntryRows) :
        i # j => EntryRows[i].content_hash # EntryRows[j].content_hash

C1_Witness == CommitOk /\ last.skipped_duplicates >= 1 /\ Len(EntryRows) >= 1

\* C2: the commit ledger holds at most one record per proposal_id.
C2_OneCommitRecordPerProposal ==
    \A i, j \in 1..Len(CommitRows) :
        i # j => CommitRows[i].proposal_id # CommitRows[j].proposal_id

C2_Witness == CommitOk /\ Len(CommitRows) >= 2

\* C3: a commit of a proposal_id that already has a commit record (its first
\* commit succeeded) ends with the already-committed error and leaves vault,
\* both ledgers, inbox and processed area as they were; the ledger keeps
\* exactly one record for that id.
C3_RecommitRejectedUnchanged ==
    (last.op = "commit" /\ \E i \in 1..Len(last.pre.commits.rows) :
                              last.pre.commits.rows[i].proposal_id = last.proposal_id)
        => /\ last.outcome = "already_committed"
           /\ VaultAsBefore /\ LedgersAsBefore /\ StageAsBefore
           /\ Cardinality({i \in 1..Len(CommitRows) :
                              CommitRows[i].proposal_id = last.proposal_id}) = 1

C3_Witness ==
    /\ last.op = "commit" /\ last.outcome = "already_committed"
    /\ DOMAIN vault # {} /\ DOMAIN processed # {}

\* C4: a commit that fails inside the vault-writing loop after at least one
\* file was written leaves vault, both ledgers and the inbox as they were.
C4_Step3FailureRestores ==
    (CommitFailedAt({"write_entry", "write_summary"}) /\ last.wrote >= 1)
        => VaultAsBefore /\ LedgersAsBefore /\ inbox = last.pre.inbox

\* C5: a commit that fails while relocating a staged source leaves vault,
\* both ledgers, inbox and processed area as they were.
C5_Step4FailureRestores ==
    CommitFailedAt({"move", "missing_source"})
        => VaultAsBefore /\ LedgersAsBefore /\ StageAsBefore

\* C6: a commit that fails in step 5 (git add, git commit, rev-parse or the
\* commit-ledger append) leaves vault, both ledgers, the inbox and the git
\* history as they were: no commit of the failed attempt remains.
C6_Step5FailureRestores ==
    CommitFailedAt({"git_add", "git_commit", "rev_parse", "append_commits"})
        => /\ VaultAsBefore /\ LedgersAsBefore /\ inbox = last.pre.inbox
           /\ gitLog = last.pre.gitLog

\* C7: between commit attempts the vault and the entries ledger agree: every
\* record's entry and summary paths are vault files, and every vault file is
\* referenced by a record.
C7_VaultAgreesWithLedger ==
    /\ \A i \in 1..Len(EntryRows) :
          /\ EntryRows[i].entry_path \in DOMAIN vault
          /\ EntryRows[i].summary_path # NoPath => EntryRows[i].summary_path \in DOMAIN vault
    /\ \A path \in DOMAIN vault :
          \E i \in 1..Len(EntryRows) :
              path = EntryRows[i].entry_path \/ path = EntryRows[i].summary_path

\* The ready items of the committed proposal whose hash the entries ledger
\* already held when commit was called.
LastDuplicates ==
    {i \in 1..Len(LastItems) :
        LastItems[i].status = "ready" /\ LastItems[i].content_hash \in PreHashes}

\* C8: a successful commit counts every ready item whose hash an earlier
\* proposal already recorded in skipped_duplicates and not in
\* committed_entries, leaves the vault files at its target paths untouched,
\* and the ledger keeps exactly one record for the hash, the earlier one.
C8_DuplicateSkipped ==
    CommitOk =>
        /\ last.skipped_duplicates >= Cardinality(LastDuplicates)
        /\ last.committed_entries
              <= CountReady(LastItems) - Cardinality(LastDuplicates)
        /\ \A i \in LastDuplicates :
              /\ SameFile(last.pre.vault, vault, LastItems[i].target_entry_path)
              /\ LastItems[i].target_summary_path # NoPath
                    => SameFile(last.pre.vault, vault, LastItems[i].target_summary_path)
              /\ Cardinality({r \in 1..Len(EntryRows) :
                                EntryRows[r].content_hash = LastItems[i].content_hash}) = 1
              /\ \A r \in 1..Len(EntryRows) :
                    EntryRows[r].content_hash = LastItems[i].content_hash
                        => EntryRows[r].proposal_id # last.proposal_id

C8_Witness ==
    /\ CommitOk /\ LastDuplicates # {}
    /\ last.skipped_duplicates = 1 /\ last.committed_entries = 0

\* C9: a commit that ran (to success or to rollback) wrote no file at the
\* target_entry_path of an invalid item, appended no entries-ledger record
\* for it, and left its staged source where it was in the inbox.
C9_InvalidItemsUntouched ==
    CommitRan =>
        \A i \in 1..Len(LastItems) :
            LastItems[i].status = "invalid" =>
                /\ LastItems[i].target_entry_path \notin DOMAIN vault
                /\ SameFile(last.pre.vault, vault, LastItems[i].target_entry_path)
                /\ \A r \in 1..Len(EntryRows) :
                      EntryRows[r].content_hash # LastItems[i].content_hash
                /\ SameFile(last.pre.inbox, inbox, LastItems[i].source_stage_path)

C9_Witness ==
    /\ CommitOk /\ last.committed_entries >= 1
    /\ \E i \in 1..Len(LastItems) :
          /\ LastItems[i].status = "invalid"
          /\ LastItems[i].source_stage_path \in DOMAIN inbox

\* The names move_stage_to_processed can give a source in the processed area.
TaggedNames(proposal_id, name) ==
    {stage_processed \o "/" \o proposal_id \o "_" \o name}
    \cup {stage_processed \o "/" \o proposal_id \o "_" \o ToString(c) \o "_" \o name :
            c \in 1..MaxStaged}

\* C10: after a successful commit the staged source of every ready item,
\* committed or skipped as a duplicate, is gone from the inbox and is a new
\* file of the processed area named with the proposal id as prefix.
C10_ReadySourcesProcessed ==
    CommitOk =>
        \A i \in 1..Len(LastItems) :
            LastItems[i].status = "ready" =>
                /\ LastItems[i].source_stage_path \notin DOMAIN inbox
                /\ \E destination \in (DOMAIN processed) \ (DOMAIN last.pre.processed) :
                      /\ destination \in TaggedNames(last.proposal_id,
                                                     PathName(LastItems[i].source_stage_path))
                      /\ processed[destination]
                            = last.pre.inbox[LastItems[i].source_stage_path]

C10_Witness ==
    CommitOk /\ last.committed_entries >= 1 /\ last.skipped_duplicates >= 1

\* C11 (as amended): in a project root that is a git repository, a commit
\* with a proposal_id that is not in the proposal store fails with the
\* not-found error and leaves vault files, both ledgers, inbox and processed
\* area unchanged.
C11_MissingProposalRejected ==
    (last.op = "commit" /\ gitRepo /\ last.proposal_id \notin DOMAIN proposals)
        => /\ last.outcome = "not_found"
           /\ VaultAsBefore /\ LedgersAsBefore /\ StageAsBefore

C11_Witness ==
    /\ last.op = "commit" /\ last.outcome = "not_found"
    /\ DOMAIN proposals # {} /\ DOMAIN inbox # {} /\ Len(CommitRows) >= 1

\* C11 as stated: every commit with a proposal_id that is not in the proposal
\* store fails with the not-found error and leaves vault files, both ledgers,
\* inbox and processed area unchanged.
C11_AsStated ==
    (last.op = "commit" /\ last.proposal_id \notin DOMAIN proposals)
        => /\ last.outcome = "not_found"
           /\ VaultAsBefore /\ LedgersAsBefore /\ StageAsBefore


\* C12: for every successful commit the returned counts are the true ones:
\* committed_entries is the number of records the commit appended to the
\* entries ledger, committed_entries + skipped_duplicates the number of ready
\* items, invalid_entries the number of invalid items, and the commit ledger
\* grew by exactly one record, which carries the same three counts (also
\* when all of them are zero).
C12_TrueCounts ==
    CommitOk =>
        LET before == read_jsonl(last.pre.entries)
            record == CommitRows[Len(CommitRows)]
        IN  /\ Len(EntryRows) = Len(before) + last.committed_entries
            /\ SubSeq(EntryRows, 1, Len(before)) = before
            /\ \A r \in (Len(before) + 1)..Len(EntryRows) :
                  EntryRows[r].proposal_id = last.proposal_id
            /\ last.committed_entries + last.skipped_duplicates = CountReady(LastItems)
            /\ last.invalid_entries = CountInvalid(LastItems)
            /\ Len(CommitRows) = Len(read_jsonl(last.pre.commits)) + 1
            /\ record.proposal_id = last.proposal_id
            /\ record.committed_entries = last.committed_entries
            /\ record.skipped_duplicates = last.skipped_duplicates
            /\ record.invalid_entries = last.invalid_entries

C12_Witness ==
    /\ CommitOk /\ Len(EntryRows) >= 1
    /\ last.committed_entries = 0 /\ last.skipped_duplicates = 0
    /\ last.invalid_entries = 0


\* C13: after an attempt to commit a not-yet-committed proposal failed in
\* steps 3-5 and was rolled back, re-running the commit with the cause removed
\* succeeds and ends as one fault-free commit would: one commit-ledger record
\* for the proposal, one entries-ledger record per content_hash of its ready
\* items, and every ready source gone from the inbox into the processed area.
C13_RetrySucceeds ==
    (/\ last.op = "commit" /\ last.after_failure # ""
     /\ \A i \in 1..Len(LastItems) :
           LastItems[i].status = "ready"
               => LastItems[i].source_stage_path \in DOMAIN last.pre.inbox)
        => /\ last.outcome = "ok"
           /\ Cardinality({r \in 1..Len(CommitRows) :
                              CommitRows[r].proposal_id = last.proposal_id}) = 1
           /\ \A i \in 1..Len(LastItems) :
                 LastItems[i].status = "ready" =>
                     /\ Cardinality({r \in 1..Len(EntryRows) :
                            EntryRows[r].content_hash = LastItems[i].content_hash}) = 1
                     /\ LastItems[i].source_stage_path \notin DOMAIN inbox
                     /\ \E destination \in (DOMAIN processed) \ (DOMAIN last.pre.processed) :
                            destination \in TaggedNames(last.proposal_id,
                                               PathName(LastItems[i].source_stage_path))


\* C14: a failure raised in steps 3-5 reaches the caller as that same error,
\* after the rollback has run; an attempt that was rolled back returns no
\* CommitResult and leaves no commit-ledger record.
C14_ErrorSurfacedAfterRollback ==
    last.op = "commit" =>
        /\ last.failed_at # ""
              => /\ last.outcome = "failed" /\ last.error = last.failed_at
                 /\ last.rolled_back
        /\ last.rolled_back
              => /\ last.outcome # "ok"
                 /\ commitsIndex = last.pre.commits
                 /\ \A r \in 1..Len(CommitRows) :
                       CommitRows[r].proposal_id # last.proposal_id

C14_Witness ==
    /\ CommitFailedAt({"append_commits"}) /\ last.rolled_back
    /\ last.moved # <<>> /\ Len(CommitRows) >= 1


\* The phases of an attempt, in the order of the specification.
PhaseOrder ==
    <<"started", "validating", "writing_entries", "moving_staged_files",
      "appending_commit_record", "committed">>
IsPhase(name) == name \in Range(PhaseOrder) \cup {"rolling_back", "failed"}
Positions(seq, name) == {i \in 1..Len(seq) : seq[i] = name}
AllBefore(seq, first, second) ==
    \A i \in Positions(seq, first), j \in Positions(seq, second) : i < j

\* C15: within one commit attempt the phases occur only in the order
\* validating, writing_entries, moving_staged_files, appending_commit_record,
\* committed, with rolling_back and failed entered only from a phase after
\* validation; no staged source is relocated before the vault writes and the
\* entries-ledger append of the attempt succeeded; the commit-ledger record
\* is appended only after every ready item's source was relocated.
C15_PhaseOrder ==
    last.op = "commit" =>
        LET trace == last.phases
            entered == SelectSeq(trace, IsPhase)
        IN  /\ \/ entered = PhaseOrder
               \/ entered = <<"started", "validating", "failed">>
               \/ \E n \in 3..5 :
                     entered = SubSeq(PhaseOrder, 1, n) \o <<"rolling_back", "failed">>
            /\ Positions(trace, "source_moved") # {}
                  => /\ Positions(trace, "vault_written") # {}
                     /\ AllBefore(trace, "vault_written", "source_moved")
                     /\ AllBefore(trace, "entries_appended", "source_moved")
                     /\ last.committed_entries >= 1
                           => Positions(trace, "entries_appended") # {}
            /\ Positions(trace, "commit_record_appended") # {}
                  => /\ Cardinality(Positions(trace, "source_moved"))
                           = CountReady(LastItems)
                     /\ AllBefore(trace, "source_moved", "commit_record_appended")
                     /\ AllBefore(trace, "git_committed", "commit_record_appended")
            /\ last.rolled_back <=> Positions(trace, "rolling_back") # {}
            /\ last.rolled_back => last.outcome = "failed"

C15_Witness ==
    /\ CommitFailedAt({"move"}) /\ last.rolled_back
    /\ Positions(last.phases, "source_moved") # {}
    /\ Positions(last.phases, "entries_appended") # {}


IsPrefix(before, after) ==
    Len(before) <= Len(after) /\ SubSeq(after, 1, Len(before)) = before

\* C16: both ledgers are append-only across completed commit calls: the
\* records each ledger held before the call are a prefix of those it holds
\* after it, extended by the new records on success (one commit record, one
\* entries record per committed entry) and equal on failure.
C16_LedgersAppendOnly ==
    last.op = "commit" =>
        /\ IsPrefix(read_jsonl(last.pre.entries), EntryRows)
        /\ IsPrefix(read_jsonl(last.pre.commits), CommitRows)
        /\ last.outcome = "ok"
              => /\ Len(CommitRows) = Len(read_jsonl(last.pre.commits)) + 1
                 /\ Len(EntryRows)
                       = Len(read_jsonl(last.pre.entries)) + last.committed_entries
        /\ last.outcome # "ok" => LedgersAsBefore

C16_Witness ==
    /\ last.op = "commit" /\ last.rolled_back
    /\ Positions(last.phases, "entries_appended") # {}
    /\ Len(EntryRows) >= 1 /\ Len(CommitRows) >= 1


\* C17: whatever a concurrent reader reads at the path of a file that is
\* being written (the ledger writes of the rollback included) is the complete
\* file as it was before the write, or its absence, or the complete new file,
\* never a partly written file.
C17_ReaderSeesOldOrNew == seen.content \in {seen.old, seen.new}


\* A CommitResult was returned whose records a ledger no longer holds.
RecordLost ==
    \E result \in results :
        \/ \A r \in 1..Len(CommitRows) : CommitRows[r].proposal_id # result.proposal_id
        \/ Cardinality({r \in 1..Len(EntryRows) :
                          EntryRows[r].proposal_id = result.proposal_id})
              # result.committed_entries

LedgerInvariantBroken ==
    ~C1_UniqueContentHash \/ ~C2_OneCommitRecordPerProposal \/ RecordLost

\* C18: two commit calls on one project root with nothing serializing them
\* can end with a ledger invariant broken (two commit records for one
\* proposal_id, two entries records with one content_hash, or a record of a
\* returned commit lost); this happens only when one call started while the
\* other was under way, never when the calls run one after the other.
C18_BrokenOnlyWhenOverlapped == LedgerInvariantBroken => overlapped

C18_Witness ==
    /\ \A p \in Procs : procs[p].pc = "idle"
    /\ ~C2_OneCommitRecordPerProposal

\* Every item of every proposal built over the present inbox, with the raw
\* content of its staged file.
BuiltIds == (DOMAIN proposals) \ {EarlierProposal.proposal_id}
BuiltItems ==
    UNION {{[item |-> proposals[id].items[i],
             raw |-> inbox[proposals[id].items[i].source_stage_path],
             pending_count |-> Len(proposals[id].items),
             config |-> proposals[id].config_snapshot,
             built_at |-> proposals[id].created_at]
                : i \in 1..Len(proposals[id].items)} : id \in BuiltIds}

\* C19: two staged files with identical raw content get the same content_hash
\* and the same entry_id, and with the same category the same target entry
\* path, whatever their inbox path, name or staging time.
C19_IdentityFromContent ==
    \A a \in BuiltItems, b \in BuiltItems :
        a.raw = b.raw =>
            /\ a.item.content_hash = b.item.content_hash
            /\ a.item.entry_id = b.item.entry_id
            /\ (a.item.classification.category = b.item.classification.category
                    => a.item.target_entry_path = b.item.target_entry_path)

C19_Witness ==
    \E a \in BuiltItems, b \in BuiltItems :
        /\ a.raw = b.raw
        /\ KeyOf(a.item.source_stage_path)[1] # KeyOf(b.item.source_stage_path)[1]
        /\ KeyOf(a.item.source_stage_path)[3] # KeyOf(b.item.source_stage_path)[3]
        /\ a.built_at # b.built_at
        /\ a.item.entry_id = b.item.entry_id

\* C20: an item of a built proposal is invalid exactly when the body left
\* after metadata extraction is empty or whitespace-only, and ready otherwise;
\* an invalid item has an invalid_reason, no summary and no target summary path.
C20_InvalidIffEmptyBody ==
    \A b \in BuiltItems :
        /\ b.item.status = (IF BodyOf(b.raw) = "" THEN "invalid" ELSE "ready")
        /\ b.item.status = "invalid" =>
                /\ b.item.invalid_reason # ""
                /\ b.item.summary = <<>>
                /\ b.item.target_summary_path = NoPath

\* A frontmatter-only file in a build whose batch trigger fired: the item is
\* invalid while a ready item of the same build got its summary.
C20_Witness ==
    \E b \in BuiltItems, c \in BuiltItems :
        /\ b.raw = "fmonly"
        /\ b.item.status = "invalid"
        /\ b.pending_count >= b.config.batch_trigger_count
        /\ c.built_at = b.built_at
        /\ c.config = b.config
        /\ c.item.status = "ready"
        /\ c.item.summary # <<>>

\* The trigger signals that fire for a built item, from its file and its build.
FiredSignals(b) ==
    IF ~b.config.enabled THEN <<>>
    ELSE (IF WordCount(BodyOf(b.raw)) >= b.config.min_words
          THEN <<"long_entry">> ELSE <<>>)
         \o (IF b.pending_count >= b.config.batch_trigger_count
             THEN <<"batch_threshold">> ELSE <<>>)
         \o (IF \E p \in (DOMAIN vault) \cap SummariesDir :
                    SimilarityRatio(BodyOf(b.raw), vault[p])
                        >= b.config.redundancy_similarity_threshold
             THEN <<"high_redundancy">> ELSE <<>>)

\* C21: an item has a summary exactly when it is ready and a trigger signal
\* fired; then triggered_by is the fired signals and target_summary_path is
\* set; otherwise summary and target_summary_path are both absent; with
\* summarization disabled no item has a summary.
C21_SummaryIffReadyAndTriggered ==
    \A b \in BuiltItems :
        /\ b.item.summary # <<>> <=> (b.item.status = "ready" /\ FiredSignals(b) # <<>>)
        /\ b.item.summary # <<>> =>
                /\ b.item.summary[1].triggered_by = FiredSignals(b)
                /\ b.item.target_summary_path = target_summary_relative_path(b.item.entry_id)
        /\ b.item.summary = <<>> => b.item.target_summary_path = NoPath
        /\ ~b.config.enabled => b.item.summary = <<>>

\* One build in which a long note met the batch trigger and a pasted summary
\* met the redundancy trigger, and another build, with summarization
\* disabled, of the same files.
C21_Witness ==
    \E a \in BuiltItems, b \in BuiltItems, c \in BuiltItems :
        /\ a.item.summary # <<>>
        /\ a.item.summary[1].triggered_by = <<"long_entry", "batch_threshold">>
        /\ b.item.summary # <<>>
        /\ b.item.summary[1].triggered_by = <<"batch_threshold", "high_redundancy">>
        /\ ~c.config.enabled
        /\ c.raw = "long"
        /\ c.item.summary = <<>>

\* C22: the category stored in an item's classification is a member of the
\* configured set of categories; a classifier category outside the set is
\* replaced by the fallback category with confidence at most 0.35.
C22_CategoryAllowed ==
    \A b \in BuiltItems :
        /\ b.item.classification.category \in b.config.core_categories
        /\ classify_item(b.raw, DEFAULT_CONFIG).category \notin b.config.core_categories
                => /\ b.item.classification.category = "reference"
                   /\ b.item.classification.confidence <= 350

\* C23: the stats of a built proposal are counts over its items: total is the
\* number of items and is ready + invalid, each of the two being the number
\* of items of that status, and the with-summary count is at most ready; a
\* build over an empty inbox gives a proposal with no item and total 0.
C23_StatsAreCounts ==
    \A id \in BuiltIds :
        LET items == proposals[id].items
            stats == proposals[id].stats
        IN  /\ stats.total_items = Len(items)
            /\ stats.ready_items =
                    Cardinality({i \in 1..Len(items) : items[i].status = "ready"})
            /\ stats.invalid_items =
                    Cardinality({i \in 1..Len(items) : items[i].status = "invalid"})
            /\ stats.total_items = stats.ready_items + stats.invalid_items
            /\ stats.summary_items <= stats.ready_items
            /\ inbox = EmptyFiles => items = <<>> /\ stats.total_items = 0

C23_Witness ==
    /\ inbox = EmptyFiles
    /\ \E id \in BuiltIds : proposals[id].stats.total_items = 0

\* C24: only commit changes vault files or ledgers: a step that is not a commit
\* (stage add, build and save) leaves the vault files, the entries ledger and
\* the commit ledger unchanged, and a step that stores a proposal also leaves
\* the inbox and the processed area unchanged.
C24_OnlyCommitWrites ==
    [][/\ last'.op # "commit" =>
            /\ vault' = vault
            /\ entriesIndex' = entriesIndex
            /\ commitsIndex' = commitsIndex
       /\ proposals' # proposals =>
            /\ inbox' = inbox
            /\ processed' = processed
            /\ vault' = vault
            /\ entriesIndex' = entriesIndex
            /\ commitsIndex' = commitsIndex]_vars

\* A proposal with a ready item is stored and a file is pending while the
\* vault and both ledgers are still empty.
C24_Witness ==
    /\ \E id \in DOMAIN proposals : proposals[id].stats.ready_items > 0
    /\ Cardinality(DOMAIN inbox) = MaxStaged
    /\ vault = EmptyFiles
    /\ entriesIndex = NoFile
    /\ commitsIndex = NoFile

\* C25: a stored proposal is never mutated: a build's id differs from every id
\* saved before, so that no step (build and save, commit successful or failed,
\* stage add) removes a stored proposal id or changes what is stored under it.
C25_StoredProposalImmutable ==
    [][\A id \in DOMAIN proposals :
            id \in DOMAIN proposals' /\ proposals'[id] = proposals[id]]_vars

\* C26: after a build and save, load_latest returns the proposal created most
\* recently, also when several proposals were created within one second; it
\* fails with the not-found error exactly when no proposal is saved.
C26_LatestIsMostRecent ==
    /\ last.op = "build" =>
            /\ load_latest_proposal(proposals).found
            /\ load_latest_proposal(proposals).proposal_id = last.proposal_id
    /\ ~load_latest_proposal(proposals).found <=> DOMAIN proposals = {}

\* C27: stage add never overwrites: after a successful add every file pending
\* before is still pending with the same content and exactly one file was
\* added, at the returned path, with the content of the source, also when the
\* timestamped name was taken; an add of a missing source fails with the
\* not-found error and leaves the inbox as it was.
C27_StageAddNeverOverwrites ==
    last.op = "stage_add" =>
        \A r \in results :
            IF last.outcome = "ok"
            THEN /\ \A q \in DOMAIN last.pre.inbox :
                        q \in DOMAIN inbox /\ inbox[q] = last.pre.inbox[q]
                 /\ r.destination \notin DOMAIN last.pre.inbox
                 /\ DOMAIN inbox = (DOMAIN last.pre.inbox) \cup {r.destination}
                 /\ inbox[r.destination] = r.source
            ELSE /\ last.outcome = "not_found"
                 /\ inbox = last.pre.inbox

\* An add whose timestamped name was already pending, with other content.
C27_Witness ==
    /\ last.op = "stage_add"
    /\ last.outcome = "ok"
    /\ \E r \in results :
          /\ stage_inbox \o "/" \o StagedName(now, 0, r.name) \in DOMAIN last.pre.inbox
          /\ last.pre.inbox[stage_inbox \o "/" \o StagedName(now, 0, r.name)] # r.source
          /\ KeyOf(r.destination)[2] = 1

\* C28: move_to_processed never overwrites: its destination did not exist
\* before, also when the tagged name was taken, every file processed before
\* is unchanged and the moved file arrives with its content; when the source
\* no longer exists it fails with the not-found error and moves nothing.
C28_MoveNeverOverwrites ==
    last.op = "move" =>
        \A r \in results :
            IF r.source \in DOMAIN last.pre.inbox
            THEN /\ last.outcome = "ok"
                 /\ r.destination \notin DOMAIN last.pre.processed
                 /\ \A q \in DOMAIN last.pre.processed :
                        q \in DOMAIN processed /\ processed[q] = last.pre.processed[q]
                 /\ DOMAIN processed = (DOMAIN last.pre.processed) \cup {r.destination}
                 /\ processed[r.destination] = last.pre.inbox[r.source]
                 /\ DOMAIN inbox = (DOMAIN last.pre.inbox) \ {r.source}
            ELSE /\ last.outcome = "not_found"
                 /\ inbox = last.pre.inbox
                 /\ processed = last.pre.processed

\* The second of two files of one name, from different directories of the
\* inbox, moved under one proposal id: the tagged name was taken by the first.
C28_Witness ==
    /\ last.op = "move"
    /\ last.outcome = "ok"
    /\ \E r \in results :
          /\ TaggedName(processed, last.proposal_id, 0, PathName(r.source))
                \in DOMAIN last.pre.processed
          /\ r.destination # TaggedName(processed, last.proposal_id, 0, PathName(r.source))
          /\ processed[r.destination]
                # processed[TaggedName(processed, last.proposal_id, 0, PathName(r.source))]

\* The ready items of the last proposal that carry hash h, in proposal order.
LastReadyWith(h) ==
    {i \in 1..Len(LastItems) :
        LastItems[i].status = "ready" /\ LastItems[i].content_hash = h}
FirstOf(S) == CHOOSE i \in S : \A j \in S : i <= j
NewHashes ==
    {LastItems[i].content_hash : i \in {i \in 1..Len(LastItems) :
                                            LastItems[i].status = "ready"}} \ PreHashes

\* C29: when ready items of one proposal share a content_hash the ledger did
\* not hold, a successful commit writes and records the first of them in
\* proposal order and counts every later one in skipped_duplicates, with no
\* second write and no second record, and the staged sources of all of them
\* are relocated to the processed area.
C29_SharedHashWithinProposal ==
    CommitOk =>
        /\ last.committed_entries = Cardinality(NewHashes)
        /\ last.skipped_duplicates = CountReady(LastItems) - Cardinality(NewHashes)
        /\ \A h \in NewHashes :
              LET first == LastItems[FirstOf(LastReadyWith(h))]
              IN  /\ Cardinality({r \in 1..Len(EntryRows) :
                                    EntryRows[r].content_hash = h}) = 1
                  /\ \A r \in 1..Len(EntryRows) :
                        EntryRows[r].content_hash = h =>
                            /\ EntryRows[r].proposal_id = last.proposal_id
                            /\ EntryRows[r].source_stage_path = first.source_stage_path
                  /\ first.target_entry_path \in DOMAIN vault
                  /\ vault[first.target_entry_path]
                        = render_entry_markdown(first, last.proposal_id)
                  /\ \A i \in LastReadyWith(h) :
                        /\ LastItems[i].source_stage_path \notin DOMAIN inbox
                        /\ \E moved \in Range(last.moved) :
                              /\ moved[2] = LastItems[i].source_stage_path
                              /\ moved[1] \in DOMAIN processed
                              /\ moved[1] \notin DOMAIN last.pre.processed

\* Two ready items of one proposal with one hash, new to the ledger.
C29_Witness ==
    /\ CommitOk
    /\ \E h \in NewHashes : Cardinality(LastReadyWith(h)) = 2
    /\ last.committed_entries = 1
    /\ last.skipped_duplicates = 1

\* The last call was a commit of a stale proposal: it passed validation, no
\* I/O call was made to fail, and the staged source of one of its ready items
\* had already left the inbox.
StaleCommit ==
    /\ CommitRan
    /\ last.cause # "fault"
    /\ \E i \in 1..Len(LastItems) :
          /\ LastItems[i].status = "ready"
          /\ LastItems[i].source_stage_path \notin DOMAIN last.pre.inbox

\* C30: the commit of a stale proposal, some of whose sources an earlier
\* commit has consumed, fails with the not-found error and, after rollback,
\* leaves vault files, both ledgers, the inbox (with the proposal's own new
\* files) and the processed area as they were before the call.
C30_StaleCommitRolledBack ==
    StaleCommit =>
        /\ last.outcome = "failed"
        /\ last.error = "missing_source"
        /\ last.rolled_back
        /\ vault = last.pre.vault
        /\ entriesIndex = last.pre.entries
        /\ commitsIndex = last.pre.commits
        /\ inbox = last.pre.inbox
        /\ processed = last.pre.processed

\* The entries-ledger records that carry a proposal id.
EntryRowsOf(proposal_id) ==
    {r \in 1..Len(EntryRows) : EntryRows[r].proposal_id = proposal_id}

\* C31: between calls the two ledgers agree: the proposal_id of every
\* entries-ledger record has a record in the commit ledger, and the
\* committed_entries of every commit-ledger record is the number of
\* entries-ledger records that carry its proposal_id.
C31_LedgersAgree ==
    /\ \A r \in 1..Len(EntryRows) :
          \E c \in 1..Len(CommitRows) :
              CommitRows[c].proposal_id = EntryRows[r].proposal_id
    /\ \A c \in 1..Len(CommitRows) :
          CommitRows[c].committed_entries
              = Cardinality(EntryRowsOf(CommitRows[c].proposal_id))

\* A commit that appended to the entries ledger and was rolled back, after
\* an earlier commit had recorded an entry.
C31_Witness ==
    /\ CommitFailedAt({"git_add", "git_commit", "rev_parse", "append_commits"})
    /\ last.rolled_back
    /\ last.wrote >= 1
    /\ Len(CommitRows) = 1
    /\ CommitRows[1].committed_entries = 1
    /\ Len(EntryRows) = 1

\* The files the processed area gained during the last call.
NewlyProcessed == (DOMAIN processed) \ (DOMAIN last.pre.processed)

\* C32: a commit call conserves the staged files: every file processed before
\* is still there with its content; every file pending before is either
\* still pending at its path with its content, or is exactly one new file of
\* the processed area with its content; the two areas hold no file more; and
\* after a rollback both areas are as they were before the call.
C32_StagedFilesConserved ==
    CommitRan =>
        /\ \A q \in DOMAIN last.pre.processed :
              q \in DOMAIN processed /\ processed[q] = last.pre.processed[q]
        /\ \A p \in DOMAIN last.pre.inbox :
              IF p \in DOMAIN inbox
              THEN /\ inbox[p] = last.pre.inbox[p]
                   /\ \A d \in NewlyProcessed : <<d, p>> \notin Range(last.moved)
              ELSE Cardinality({d \in NewlyProcessed :
                                    /\ <<d, p>> \in Range(last.moved)
                                    /\ processed[d] = last.pre.inbox[p]}) = 1
        /\ DOMAIN inbox \subseteq DOMAIN last.pre.inbox
        /\ Cardinality(DOMAIN inbox) + Cardinality(DOMAIN processed)
              = Cardinality(DOMAIN last.pre.inbox) + Cardinality(DOMAIN last.pre.processed)
        /\ last.outcome = "failed" =>
              inbox = last.pre.inbox /\ processed = last.pre.processed

\* A commit that had relocated every file of a full inbox when a later call
\* raised, and was rolled back.
C32_Witness ==
    /\ CommitFailedAt({"git_add", "git_commit", "rev_parse", "append_commits"})
    /\ last.rolled_back
    /\ Len(last.moved) = MaxStaged
    /\ Cardinality(DOMAIN inbox) = MaxStaged

\* The entries-ledger records before the last call, and the paths at which
\* the last proposal's attempt writes: those of its ready items whose hash
\* the ledger did not hold.
PreEntryRows == read_jsonl(last.pre.entries)
AttemptPaths ==
    UNION {{LastItems[i].target_entry_path, LastItems[i].target_summary_path} :
                i \in {i \in 1..Len(LastItems) :
                            /\ LastItems[i].status = "ready"
                            /\ LastItems[i].content_hash \notin PreHashes}}

\* C33: a commit call, successful or rolled back, leaves every vault entry
\* and summary file an earlier successful commit recorded as it was, keeps
\* every record both ledgers held, and removes or changes only files at
\* paths the attempt itself writes.
C33_EarlierCommitsUntouched ==
    CommitRan =>
        /\ \A r \in 1..Len(PreEntryRows) :
              /\ PreEntryRows[r].entry_path \in DOMAIN last.pre.vault
              /\ SameFile(last.pre.vault, vault, PreEntryRows[r].entry_path)
              /\ PreEntryRows[r].summary_path # NoPath =>
                    /\ PreEntryRows[r].summary_path \in DOMAIN last.pre.vault
                    /\ SameFile(last.pre.vault, vault, PreEntryRows[r].summary_path)
        /\ IsPrefix(PreEntryRows, EntryRows)
        /\ IsPrefix(read_jsonl(last.pre.commits), CommitRows)
        /\ \A path \in DOMAIN last.pre.vault :
              ~SameFile(last.pre.vault, vault, path) => path \in AttemptPaths

\* A rolled-back commit that had written a file, in a vault that holds the
\* entry of an earlier commit whose content the proposal repeats.
C33_Witness ==
    /\ CommitRan
    /\ last.outcome = "failed"
    /\ last.rolled_back
    /\ last.wrote >= 1
    /\ LastDuplicates # {}
    /\ Len(PreEntryRows) >= 1
    /\ PreEntryRows[1].entry_path \in DOMAIN vault

(***************************************************************************)
(* The commit command of the command line: cmd_commit calls                *)
(* commit_proposal and prints its result, main turns what cmd_commit did   *)
(* into the exit status of the process.  Both are read off the observation *)
(* of the commit_proposal call that cmd_commit made.                       *)
(***************************************************************************)
\* models.py:128-135: the attributes a CommitResult has.
CommitResultFields ==
    {"proposal_id", "git_sha", "committed_entries", "skipped_duplicates",
     "invalid_entries", "message"}

\* cli.py:115-123: the four prints of cmd_commit, in order, and the
\* attributes of the result each of them reads.
ReportLines == <<"proposal_id", "commit_ref", "summary", "message">>
ReportReads ==
    <<{"proposal_id"}, {"commit_ref"},
      {"committed_entries", "skipped_duplicates", "invalid_entries"},
      {"message"}>>

\* The prints that run before a lookup of an attribute the result lacks
\* raises AttributeError: a print whose f-string raises prints nothing.
PrintedLines(fields) ==
    LET good == {n \in 0..Len(ReportLines) :
                    \A j \in 1..n : ReportReads[j] \subseteq fields}
        n == CHOOSE n \in good : \A m \in good : m <= n
    IN  SubSeq(ReportLines, 1, n)

\* cli.py:107-124: an exception of commit_proposal propagates; a returned
\* result is printed line by line, and 0 is returned after the last print.
cmd_commit(call) ==
    IF call.outcome # "ok"
    THEN [raised |-> TRUE, error |-> call.error, printed |-> <<>>, status |-> 0]
    ELSE IF PrintedLines(CommitResultFields) = ReportLines
    THEN [raised |-> FALSE, error |-> "", printed |-> ReportLines, status |-> 0]
    ELSE [raised |-> TRUE, error |-> "AttributeError",
          printed |-> PrintedLines(CommitResultFields), status |-> 0]

\* cli.py:182-214: the status of the command, 1 for any exception.
main(call) == IF cmd_commit(call).raised THEN 1 ELSE cmd_commit(call).status

\* C34: when commit_proposal succeeds, the commit command reports the
\* proposal id, the commit reference, the counts and the message and exits
\* with status 0; it exits with a non-zero status only when the commit did
\* not take effect.
C34_DurableCommitExitsZero ==
    last.op = "commit" =>
        /\ CommitOk => /\ main(last) = 0
                       /\ cmd_commit(last).printed = ReportLines
        /\ main(last) # 0 =>
              /\ ~CommitOk
              /\ IsPrefix(CommitRows, read_jsonl(last.pre.commits))

\* C35: a commit in a project root that is not a git repository is refused:
\* the call fails at the repository check, before the proposal is loaded or a
\* ledger read (whether or not the proposal is in the store), and leaves
\* vault files, both ledgers, inbox and processed area unchanged.
C35_NoRepositoryRefused ==
    (last.op = "commit" /\ ~gitRepo)
        => /\ last.outcome = "no_git"
           /\ last.phases = <<"started", "validating", "failed">>
           /\ ~last.rolled_back /\ last.wrote = 0
           /\ vault = last.pre.vault
           /\ entriesIndex = last.pre.entries /\ commitsIndex = last.pre.commits
           /\ inbox = last.pre.inbox /\ processed = last.pre.processed
           /\ gitLog = last.pre.gitLog

\* The refused call named a stored proposal whose staged files are pending.
C35_Witness ==
    /\ last.op = "commit" /\ ~gitRepo /\ last.outcome = "no_git"
    /\ last.proposal_id \in DOMAIN proposals
    /\ proposals[last.proposal_id].items # <<>>
    /\ DOMAIN inbox # {}

\* The refused call named a proposal that is not in the store.
C35_UnknownIdWitness ==
    /\ last.op = "commit" /\ ~gitRepo /\ last.outcome = "no_git"
    /\ last.proposal_id \notin DOMAIN proposals


====
